---- MODULE Spec2Model ----
(***************************************************************************)
(* Model of vite-plugin-monad (packages/vite-plugin-monad/src/index.ts):   *)
(* the template composition pipeline (expandIncludes, interpolateMustache),*)
(* the route mapper (routeFromRelPath), the audit engine (auditHtml,       *)
(* auditAccessibility) and the build driver (renderAll, closeBundle).      *)
(*                                                                         *)
(* Texts are kept as strings wherever the code works on characters (route  *)
(* mapping, link normalisation, warning messages and their substring       *)
(* filter).  Templates are kept as sequences of nodes (literal text,       *)
(* inclusion tag, mustache token): the node boundaries are what the two    *)
(* regular expressions of expandIncludes and interpolateMustache match.    *)
(***************************************************************************)
EXTENDS Integers, Sequences, FiniteSets, TLC

VARIABLES
    \* ---- expandIncludes / page composition ----
    files,      \* fragment store: absolute path -> template, or NoFile
    bodies,     \* page body templates of the build, in iteration order
    skipFinal,  \* options.collections.enabled (skipFinalInterpolation of the body pass)
    collections,\* the collections object of the build (renderAll 1559)
    pageIdx,    \* index of the page being composed
    frames,     \* call stack of expandIncludes, outermost first
    rendered,   \* renderedBody of every page composed so far
    composed,   \* renderedBody of every page as expandIncludes returned it (1616)
    parsed,     \* what tryParsePageMeta returned for every page started so far
    renderedFull,\* renderedFull of every page: the layout with the slots inserted
    pc,         \* "expand" | "done" | "failed"
    \* ---- renderAll / closeBundle ----
    opts,       \* the plugin options of the build
    pages,      \* page sources in listPages order: relative path and final document
    allRoutes,  \* the route table of renderAll's first pass
    results,    \* RenderResult[] of the build
    written,    \* files written under dist
    audits,     \* the calls of auditHtml and auditAccessibility made so far
    bpc,        \* position in closeBundle, "aborted:<policy>" once it has thrown
    \* ---- single calls of routeFromRelPath / auditHtml ----
    arg,        \* the arguments of the call
    ret         \* [done, val]: whether the call has returned, and its result

exVars == <<files, bodies, skipFinal, collections, pageIdx, frames, rendered, composed,
           parsed, renderedFull, pc>>
buildVars == <<opts, pages, allRoutes, results, written, audits, bpc>>

fnVars == <<arg, ret>>

vars == <<files, bodies, skipFinal, collections, pageIdx, frames, rendered, composed,
          parsed, renderedFull, pc,
          opts, pages, allRoutes, results, written, audits, bpc, arg, ret>>

----------------------------------------------------------------------------
(* Generic string helpers (JavaScript String methods).                     *)

StartsWith(s, p) == Len(s) >= Len(p) /\ SubSeq(s, 1, Len(p)) = p

EndsWith(s, p) == Len(s) >= Len(p) /\ SubSeq(s, Len(s) - Len(p) + 1, Len(s)) = p

Includes(s, p) ==
    \E i \in 1..(Len(s) - Len(p) + 1) : SubSeq(s, i, i + Len(p) - 1) = p

----------------------------------------------------------------------------
(* Bounds.                                                                 *)

MaxPages == 2     \* pages composed in one build
MaxDepth == 6     \* call-stack budget of the recursion (frames)

\* the one element of a singleton set: { f(x) : x \in {e} } computes e once
\* for all its uses in f
The(S) == CHOOSE x \in S : TRUE

----------------------------------------------------------------------------
(* Path helpers (node:path on posix).                                      *)

LastSlash(s) ==
    LET idx == {i \in 1..Len(s) : SubSeq(s, i, i) = "/"}
    IN  IF idx = {} THEN 0 ELSE CHOOSE i \in idx : \A j \in idx : j <= i

Basename(p) == SubSeq(p, LastSlash(p) + 1, Len(p))

Dirname(p) ==
    IF LastSlash(p) = 0 THEN "."
    ELSE IF LastSlash(p) = 1 THEN "/" ELSE SubSeq(p, 1, LastSlash(p) - 1)

PathJoin(a, b) == IF b = "" THEN a ELSE IF a = "" THEN b ELSE a \o "/" \o b

IsQuote(c) == c = "\"" \/ c = "'"

\* ref.replace(/^["']|["']$/g, "")
StripQuotes(s) ==
    LET a == IF Len(s) > 0 /\ IsQuote(SubSeq(s, 1, 1)) THEN SubSeq(s, 2, Len(s)) ELSE s
    IN  IF Len(a) > 0 /\ IsQuote(SubSeq(a, Len(a), Len(a)))
        THEN SubSeq(a, 1, Len(a) - 1) ELSE a

----------------------------------------------------------------------------
(* Route mapping.                                                          *)

\* String.prototype.toLowerCase on ASCII letters (the /i flag)
LowerOf ==
    "A" :> "a" @@ "B" :> "b" @@ "C" :> "c" @@ "D" :> "d" @@ "E" :> "e" @@ "F" :> "f" @@
    "G" :> "g" @@ "H" :> "h" @@ "I" :> "i" @@ "J" :> "j" @@ "K" :> "k" @@ "L" :> "l" @@
    "M" :> "m" @@ "N" :> "n" @@ "O" :> "o" @@ "P" :> "p" @@ "Q" :> "q" @@ "R" :> "r" @@
    "S" :> "s" @@ "T" :> "t" @@ "U" :> "u" @@ "V" :> "v" @@ "W" :> "w" @@ "X" :> "x" @@
    "Y" :> "y" @@ "Z" :> "z"

LowerChar(c) == IF c \in DOMAIN LowerOf THEN LowerOf[c] ELSE c

RECURSIVE ToLower(_)
ToLower(str) ==
    The({IF s = "" THEN "" ELSE LowerChar(SubSeq(s, 1, 1)) \o ToLower(Tail(s)) : s \in {str}})

\* s.replace(/SUFFIX$/i, "")
DropSuffixI(s, suffix) ==
    IF EndsWith(ToLower(s), suffix) THEN SubSeq(s, 1, Len(s) - Len(suffix)) ELSE s

\* posix.replace(/\.(html|md)$/i, "")
StripPageExt(posix) ==
    IF EndsWith(ToLower(posix), ".html") THEN SubSeq(posix, 1, Len(posix) - 5)
    ELSE IF EndsWith(ToLower(posix), ".md") THEN SubSeq(posix, 1, Len(posix) - 3)
    ELSE posix

\* s.replace(/\/+/g, "/")
RECURSIVE CollapseSlashes(_)
CollapseSlashes(str) ==
    The({IF Len(s) < 2 THEN s
         ELSE IF SubSeq(s, 1, 2) = "//" THEN CollapseSlashes(Tail(s))
         ELSE SubSeq(s, 1, 1) \o CollapseSlashes(Tail(s)) : s \in {str}})

\* s.replace(/\/$/, "")
DropTrailingSlash(s) == IF EndsWith(s, "/") THEN SubSeq(s, 1, Len(s) - 1) ELSE s

routeFromRelPath(relFilePath, cleanUrls, trailingSlash) ==
    LET noExt == StripPageExt(relFilePath)
        route == "/" \o CollapseSlashes(DropSuffixI(noExt, "index"))
        cleaned == IF EndsWith(route, "/") THEN route
                   ELSE route \o (IF trailingSlash THEN "/" ELSE "")
    IN  IF noExt = "index" THEN "/"
        ELSE IF ~cleanUrls THEN "/" \o noExt \o ".html"
        ELSE cleaned

DistDir == "/site/dist"

outFileFromRoute(route, distDir, cleanUrls) ==
    LET clean == IF StartsWith(route, "/") THEN Tail(route) ELSE route
    IN  IF ~cleanUrls
        THEN PathJoin(distDir, IF clean = "" THEN "index.html"
                               ELSE DropTrailingSlash(clean) \o ".html")
        ELSE IF clean = "" THEN PathJoin(distDir, "index.html")
        ELSE PathJoin(PathJoin(distDir, DropTrailingSlash(clean)), "index.html")

----------------------------------------------------------------------------
(* Audit engine.  A document is the summary of what the selectors and      *)
(* regular expressions of the two audits read from the final HTML.         *)

RECURSIVE Flatten(_)
Flatten(seqs) ==
    The({IF ss = <<>> THEN <<>> ELSE Head(ss) \o Flatten(Tail(ss)) : ss \in {seqs}})

When(cond, msg) == IF cond THEN <<msg>> ELSE <<>>

IsBlank(s) == \A i \in 1..Len(s) : SubSeq(s, i, i) = " "

CountOf(seq, v) == Cardinality({i \in 1..Len(seq) : seq[i] = v})

\* href.split(c)[0]
BeforeChar(s, c) ==
    LET idx == {i \in 1..Len(s) : SubSeq(s, i, i) = c}
    IN  IF idx = {} THEN s
        ELSE SubSeq(s, 1, (CHOOSE i \in idx : \A j \in idx : i <= j) - 1)

WithSlash(s) == IF EndsWith(s, "/") THEN s ELSE s \o "/"

\* variant: only an exact match counts
RouteExistsExact(routes, cleanHref) == \E i \in 1..Len(routes) : routes[i] = cleanHref

RouteExists(routes, cleanHref) ==
    \E i \in 1..Len(routes) :
        \/ routes[i] = cleanHref
        \/ WithSlash(routes[i]) = WithSlash(cleanHref)

\* auditHtml 1060-1087
LinkWarnings(hrefs, routes) ==
    Flatten([i \in 1..Len(hrefs) |->
        LET href == hrefs[i]
            cleanHref == BeforeChar(BeforeChar(href, "?"), "#")
        IN  When(StartsWith(href, "/") /\ ~StartsWith(href, "//")
                   /\ ~RouteExists(routes, cleanHref),
                 "Broken internal link: " \o href)])

auditHtml(doc, routes) ==
    LET h1 == CountOf(doc.heads, 1)
    IN  When(~doc.title, "Missing <title>")
        \o When(~doc.desc, "Missing meta description")
        \o When(h1 = 0, "Missing <h1>")
        \o When(h1 > 1, "Multiple <h1> (" \o ToString(h1) \o ")")
        \o Flatten([i \in 1..Len(doc.imgs) |->
              When(~doc.imgs[i].has \/ IsBlank(doc.imgs[i].alt), "Image missing alt attribute")
              \o When(doc.imgs[i].large,
                      "Large image (600 KB): /big.png (budget 488 KB)")])
        \o LinkWarnings(doc.links, routes)
        \o When(~doc.icon, "No favicon <link rel=\"icon\"> found (consider adding)")
        \o When(~doc.canon, "Missing canonical link tag")

AllRules ==
    {"headingHierarchy", "ariaAttributes", "colorContrast", "altText",
     "keyboardNavigation", "screenReader", "skipLinks", "landmarkRoles",
     "tabIndex", "focusIndicators"}

\* variant: a step of more than one level is flagged in either direction
HeadingWarningsBothWays(heads) ==
    Flatten([i \in 1..Len(heads) |->
        When(heads[i] = 1 /\ CountOf(SubSeq(heads, 1, i), 1) > 1,
             "Multiple h1 elements found (" \o ToString(CountOf(SubSeq(heads, 1, i), 1))
                \o "). Use only one h1 per page")
        \o When(i > 1 /\ (\/ heads[i] > heads[IF i > 1 THEN i - 1 ELSE 1] + 1
                          \/ heads[i] < heads[IF i > 1 THEN i - 1 ELSE 1] - 1),
                "Heading hierarchy skipped level: H" \o ToString(heads[i])
                   \o " after h" \o ToString(heads[IF i > 1 THEN i - 1 ELSE 1]))])
    \o When(CountOf(heads, 1) = 0,
            "Missing h1 element - every page should have exactly one h1")

\* auditAccessibility 762-791
HeadingWarnings(heads) ==
    Flatten([i \in 1..Len(heads) |->
        When(heads[i] = 1 /\ CountOf(SubSeq(heads, 1, i), 1) > 1,
             "Multiple h1 elements found (" \o ToString(CountOf(SubSeq(heads, 1, i), 1))
                \o "). Use only one h1 per page")
        \o When(i > 1 /\ heads[i] > heads[IF i > 1 THEN i - 1 ELSE 1] + 1,
                "Heading hierarchy skipped level: H" \o ToString(heads[i])
                   \o " after h" \o ToString(heads[IF i > 1 THEN i - 1 ELSE 1]))])
    \o When(CountOf(heads, 1) = 0,
            "Missing h1 element - every page should have exactly one h1")

AltIncludesRedundant(alt) ==
    Includes(alt, "image of") \/ Includes(alt, "picture of") \/ Includes(alt, "graphic of")

\* auditAccessibility 824-850
AltTextWarnings(imgs) ==
    Flatten([i \in 1..Len(imgs) |->
        IF ~imgs[i].has THEN <<"Image missing alt attribute">>
        ELSE IF imgs[i].alt # "" /\ IsBlank(imgs[i].alt)
        THEN <<"Image has empty alt attribute without role=\"presentation\" or aria-hidden">>
        ELSE IF imgs[i].alt # "" /\ AltIncludesRedundant(imgs[i].alt)
        THEN <<"Alt text should not include redundant phrases like \"image of\" or \"picture of\"">>
        ELSE <<>>])
    \o Flatten([i \in 1..Len(imgs) |->
        When(imgs[i].inLink /\ (~imgs[i].has \/ imgs[i].alt = ""),
             "Image inside button/link must have alt text when no other text is present")])

SkipLinks(doc) == SelectSeq(doc.links, LAMBDA h : StartsWith(h, "#"))

\* button, a, input, select, textarea, [tabindex="0"]
HasInteractive(doc) ==
    \/ Len(doc.links) > 0
    \/ doc.feats \cap {"aNoHref", "buttonNoType", "inputNoLabel"} # {}
    \/ \E i \in 1..Len(doc.imgs) : doc.imgs[i].inLink

auditAccessibility(doc, rules) ==
    LET on(f) == f \in doc.feats
        skips == SkipLinks(doc)
        hasMainContent == doc.mains > 0 \/ "main" \in doc.ids \/ "content" \in doc.ids
        hasFocusStyles == doc.focusCss \/ on("outlineNone")
        posTab == "Avoid positive tabindex values: div has tabindex=\"2\""
    IN  (IF "headingHierarchy" \in rules THEN HeadingWarnings(doc.heads) ELSE <<>>)
     \o (IF "ariaAttributes" \in rules THEN
            When(on("ariaBadAttr"), "Invalid ARIA attribute: aria-foo on div")
            \o When(on("badRole"), "Invalid ARIA role: foo on div")
            \o When(on("roleButtonEmpty"),
                    "Button with role=\"button\" must have accessible text (aria-label, aria-labelledby, or text content)")
            \o When(on("roleImg"), "Element with role=\"img\" must have aria-label or aria-labelledby")
         ELSE <<>>)
     \o (IF "altText" \in rules THEN AltTextWarnings(doc.imgs) ELSE <<>>)
     \o (IF "keyboardNavigation" \in rules THEN
            When(on("posTabindex"), posTab)
            \o When(on("aNoHref"), "Link element without href attribute - use button for actions")
            \o When(on("buttonNoType"), "Button element should have explicit type attribute")
            \o When(on("divOnclick"),
                    "Interactive behavior on non-interactive element: div with onclick. Consider using button or adding role and keyboard support")
         ELSE <<>>)
     \o (IF "screenReader" \in rules THEN
            When(on("inputNoLabel"), "Form input without accessible label: input")
            \o When(on("tableNoCaption"),
                    "Data table should have caption, summary, or aria-label for screen readers")
            \o When(on("liOutside"), "List item (li) must be inside ul or ol element")
         ELSE <<>>)
     \o (IF "skipLinks" \in rules THEN
            When(hasMainContent /\ Len(skips) = 0,
                 "Consider adding skip links to main content for keyboard navigation")
            \o Flatten([i \in 1..Len(skips) |->
                 When(skips[i] # "#" /\ Tail(skips[i]) \notin doc.ids,
                      "Skip link points to non-existent target: " \o skips[i])])
         ELSE <<>>)
     \o (IF "landmarkRoles" \in rules THEN
            When(doc.mains = 0, "Page should have a main landmark (main element or role=\"main\")")
            \o When(doc.mains > 1,
                    "Multiple main landmarks found (" \o ToString(doc.mains)
                       \o "). Use only one main per page")
         ELSE <<>>)
     \o (IF "tabIndex" \in rules THEN When(on("posTabindex"), posTab) ELSE <<>>)
     \o (IF "focusIndicators" \in rules THEN
            When(on("outlineNone"),
                 "CSS removes focus outline without providing alternative focus indicator")
            \o When(HasInteractive(doc) /\ ~hasFocusStyles,
                    "Interactive elements should have visible focus indicators for keyboard users")
         ELSE <<>>)
     \o (IF "colorContrast" \in rules THEN
            When(on("lowContrast"),
                 "Low color contrast ratio: 1.29:1 (minimum: 4.5:1) on p")
         ELSE <<>>)

\* closeBundle 2207-2228
AccessibilityKeywords ==
    {"h1", "ARIA", "aria-", "role=", "Alt text", "alt attribute", "tabindex",
     "keyboard", "focus", "screen reader", "landmark", "skip link",
     "contrast ratio", "Button", "Form input", "table", "List item",
     "Interactive", "heading hierarchy", "multiple main"}

IsAccessibilityWarning(warning) == \E kw \in AccessibilityKeywords : Includes(warning, kw)

----------------------------------------------------------------------------
(* renderAll and closeBundle.                                              *)

\* no single call is under way
NoCall == [done |-> FALSE, val |-> <<>>]

FnIdle ==
    /\ arg = <<>>
    /\ ret = NoCall

MaxBuildPages == 2    \* page sources of one build

DefaultOptions ==
    [auditEnabled |-> TRUE, auditMode |-> "warn",
     a11yEnabled |-> FALSE, a11yMode |-> "warn", rules |-> AllRules,
     cleanUrls |-> TRUE, trailingSlash |-> TRUE,
     notFound |-> TRUE, ogSkipped |-> FALSE]

\* no build is running: the state of these variables in the composition runs
BuildIdle ==
    /\ opts = DefaultOptions
    /\ pages = <<>>
    /\ allRoutes = <<>>
    /\ results = <<>>
    /\ written = {}
    /\ audits = <<>>
    /\ bpc = "idle"

Img(has, alt, inLink) == [has |-> has, alt |-> alt, inLink |-> inLink, large |-> FALSE]

\* a page that no check complains about
CleanDoc ==
    [title |-> TRUE, desc |-> TRUE, canon |-> TRUE, icon |-> TRUE,
     heads |-> <<1, 2>>, imgs |-> <<Img(TRUE, "logo", FALSE)>>,
     links |-> <<"#main">>, ids |-> {"main"}, mains |-> 1,
     focusCss |-> TRUE, feats |-> {}]

DocSkipLevel == [CleanDoc EXCEPT !.heads = <<1, 2, 4>>]
DocLinkHome == [CleanDoc EXCEPT !.links = <<"#main", "/">>]
DocBrokenLink == [CleanDoc EXCEPT !.links = <<"#main", "/missing/">>]
DocImgNoAlt == [CleanDoc EXCEPT !.imgs = <<Img(FALSE, "", FALSE)>>]
DocLinkNoHref == [CleanDoc EXCEPT !.feats = {"aNoHref"}]

DocCatalog ==
    {CleanDoc, DocSkipLevel, DocLinkHome, DocBrokenLink, DocImgNoAlt, DocLinkNoHref}

\* the default 404 template inside the site layout
NotFoundDoc == [CleanDoc EXCEPT !.heads = <<1>>, !.imgs = <<>>, !.links = <<"#main", "/">>]

\* accessibility.rules: the defaults, and a configuration with two rules on
RuleSets == {AllRules, {"headingHierarchy", "skipLinks"}}

\* listPages returns the sorted paths
RelPaths == <<"about.html", "index.html", "team.html", "zoo.html">>

RouteOf(rel) == routeFromRelPath(rel, opts.cleanUrls, opts.trailingSlash)

\* first pass of renderAll (1562-1566)
CollectRoutes(ps) == [i \in 1..Len(ps) |-> RouteOf(ps[i].rel)]

\* variant: a single pass, the table holds the routes rendered so far
RoutesAtAuditSoFar(table, i) == SubSeq(table, 1, i)

\* the table handed to the audit of the i-th page (1745)
RoutesAtAudit(table, i) == table

OgWarnings == When(opts.ogSkipped, "OG image skipped: unknown error")

\* renderAll 1741-1768
PageWarnings(doc, routes) ==
    (IF opts.auditEnabled THEN auditHtml(doc, routes) ELSE <<>>)
    \o (IF opts.a11yEnabled THEN auditAccessibility(doc, opts.rules) ELSE <<>>)
    \o OgWarnings

\* the audit calls behind PageWarnings: the page file and the text audited
AuditCalls(page, doc) ==
    (IF opts.auditEnabled THEN <<[fn |-> "auditHtml", page |-> page, html |-> doc]>>
     ELSE <<>>)
    \o (IF opts.a11yEnabled
        THEN <<[fn |-> "auditAccessibility", page |-> page, html |-> doc]>> ELSE <<>>)

RenderResult(route, outFile, doc, warnings) ==
    [route |-> route, outFile |-> outFile, doc |-> doc, warnings |-> warnings]

ReportJson == PathJoin(PathJoin(DistDir, "__monad"), "report.json")
ReportHtml == PathJoin(PathJoin(DistDir, "__monad"), "report.html")

RECURSIVE SumLen(_)
SumLen(ws) == IF ws = <<>> THEN 0 ELSE Len(Head(ws)) + SumLen(Tail(ws))

\* results.reduce((a, r) => a + r.warnings.length, 0)
TotalWarnings(rs) == SumLen([i \in 1..Len(rs) |-> rs[i].warnings])

AccessibilityWarnings(rs) ==
    SumLen([i \in 1..Len(rs) |-> SelectSeq(rs[i].warnings, IsAccessibilityWarning)])

BuildStep(next) ==
    /\ bpc' = next
    /\ UNCHANGED <<exVars, fnVars>>

\* closeBundle calls renderAll(false): first pass
RenderAllStart ==
    /\ bpc = "start"
    /\ allRoutes' = CollectRoutes(pages)
    /\ BuildStep("render")
    /\ UNCHANGED <<opts, pages, results, written, audits>>

\* one iteration of renderAll's page loop
RenderPage ==
    /\ bpc = "render"
    /\ LET i == Len(results) + 1
           route == RouteOf(pages[i].rel)
           outFile == outFileFromRoute(route, DistDir, opts.cleanUrls)
           warnings == PageWarnings(pages[i].doc, RoutesAtAudit(allRoutes, i))
       IN  /\ results' = Append(results, RenderResult(route, outFile, pages[i].doc, warnings))
           /\ audits' = audits \o AuditCalls(pages[i].rel, pages[i].doc)
           /\ BuildStep(IF i = Len(pages) THEN "write" ELSE "render")
    /\ UNCHANGED <<opts, pages, allRoutes, written>>

\* closeBundle 2131-2134
WritePages ==
    /\ bpc = "write"
    /\ written' = written \cup {results[i].outFile : i \in 1..Len(results)}
    /\ BuildStep("notFound")
    /\ UNCHANGED <<opts, pages, allRoutes, results, audits>>

\* options.notFound.template
NotFoundTemplate == "404.html"

\* render404 1798-1819, 1937: the page file pages/404.html when there is one
\* (0 when there is none: the built-in template is rendered)
TemplateIndex ==
    IF \E i \in 1..Len(pages) : pages[i].rel = NotFoundTemplate
    THEN CHOOSE i \in 1..Len(pages) : pages[i].rel = NotFoundTemplate
    ELSE 0

\* closeBundle 2136-2161: the 404 page, then sitemap and robots
WriteNotFoundAndSiteFiles ==
    /\ bpc = "notFound"
    /\ LET routes == [i \in 1..Len(results) |-> results[i].route]
           page == IF TemplateIndex = 0 THEN "<built-in 404>" ELSE pages[TemplateIndex].rel
           doc == IF TemplateIndex = 0 THEN NotFoundDoc ELSE pages[TemplateIndex].doc
           nf == RenderResult("/404", PathJoin(DistDir, "404.html"), doc,
                              PageWarnings(doc, routes))
       IN  /\ results' = IF opts.notFound THEN Append(results, nf) ELSE results
           /\ audits' = IF opts.notFound THEN audits \o AuditCalls(page, doc) ELSE audits
           /\ written' = written
                  \cup (IF opts.notFound THEN {nf.outFile} ELSE {})
                  \cup {PathJoin(DistDir, "sitemap.xml"), PathJoin(DistDir, "robots.txt")}
    /\ BuildStep("report")
    /\ UNCHANGED <<opts, pages, allRoutes>>

\* closeBundle 2179-2190
WriteReports ==
    /\ bpc = "report"
    /\ written' = IF opts.auditEnabled THEN written \cup {ReportJson, ReportHtml} ELSE written
    /\ BuildStep(IF opts.auditEnabled THEN "auditPolicy" ELSE "a11yPolicy")
    /\ UNCHANGED <<opts, pages, allRoutes, results, audits>>

\* closeBundle 2192-2198
AuditPolicy ==
    /\ bpc = "auditPolicy"
    /\ BuildStep(IF opts.auditMode = "fail" /\ TotalWarnings(results) > 0
                 THEN "aborted:audit" ELSE "a11yPolicy")
    /\ UNCHANGED <<opts, pages, allRoutes, results, written, audits>>

\* closeBundle 2201-2236
AccessibilityPolicy ==
    /\ bpc = "a11yPolicy"
    /\ BuildStep(IF opts.a11yEnabled /\ opts.a11yMode = "fail"
                    /\ AccessibilityWarnings(results) > 0
                 THEN "aborted:accessibility" ELSE "done")
    /\ UNCHANGED <<opts, pages, allRoutes, results, written, audits>>

ExIdle ==
    /\ files = <<>>
    /\ bodies = <<>>
    /\ skipFinal = FALSE
    /\ collections = <<>>
    /\ pageIdx = 1
    /\ frames = <<>>
    /\ rendered = <<>>
    /\ composed = <<>>
    /\ parsed = <<>>
    /\ renderedFull = <<>>
    /\ pc = "idle"

InitBuild ==
    /\ ExIdle
    /\ FnIdle
    /\ opts \in [auditEnabled : BOOLEAN, auditMode : {"warn", "fail"},
                 a11yEnabled : BOOLEAN, a11yMode : {"warn", "fail"}, rules : RuleSets,
                 cleanUrls : BOOLEAN, trailingSlash : BOOLEAN,
                 notFound : BOOLEAN, ogSkipped : BOOLEAN]
    /\ \E n \in 1..MaxBuildPages :
          pages \in {[i \in 1..n |-> [rel |-> RelPaths[i], doc |-> docs[i]]] :
                        docs \in [1..n -> DocCatalog]}
    /\ allRoutes = <<>>
    /\ results = <<>>
    /\ written = {}
    /\ audits = <<>>
    /\ bpc = "start"

NextBuild ==
    \/ RenderAllStart
    \/ RenderPage
    \/ WritePages
    \/ WriteNotFoundAndSiteFiles
    \/ WriteReports
    \/ AuditPolicy
    \/ AccessibilityPolicy

SpecBuild == InitBuild /\ [][NextBuild]_vars

\* builds of a site with and without a page file for the 404 page
\* (listPages returns the sorted paths)
SitePaths == <<"404.html", "about.html", "index.html">>

InitSite ==
    /\ ExIdle
    /\ FnIdle
    /\ opts \in {[DefaultOptions EXCEPT !.auditEnabled = a, !.a11yEnabled = y,
                                        !.notFound = n, !.cleanUrls = c] :
                     a \in BOOLEAN, y \in BOOLEAN, n \in BOOLEAN, c \in BOOLEAN}
    /\ \E n \in 1..MaxBuildPages, first \in 1..2 :
          /\ first + n - 1 <= Len(SitePaths)
          /\ pages \in {[i \in 1..n |-> [rel |-> SitePaths[first + i - 1], doc |-> docs[i]]] :
                          docs \in [1..n -> DocCatalog]}
    /\ allRoutes = <<>>
    /\ results = <<>>
    /\ written = {}
    /\ audits = <<>>
    /\ bpc = "start"

SpecSite == InitSite /\ [][NextBuild]_vars

----------------------------------------------------------------------------
(* Single calls of the pure functions.                                     *)

Returns(val) ==
    /\ ~ret.done
    /\ ret' = [done |-> TRUE, val |-> val]
    /\ UNCHANGED <<arg, exVars, buildVars>>

PageNames == {"index", "about", "reindex", "re", "Index", "a", "my-index", "indexes", "x.y"}
PageExts == {".html", ".md", ".HTML"}
PageDirs == {"", "blog/", "docs/api/"}

InitRoute ==
    /\ ExIdle
    /\ BuildIdle
    /\ arg \in [dir : PageDirs, name : PageNames, ext : PageExts,
                cleanUrls : BOOLEAN, trailingSlash : BOOLEAN]
    /\ ret = NoCall

CallRouteFromRelPath ==
    Returns(routeFromRelPath(arg.dir \o arg.name \o arg.ext, arg.cleanUrls, arg.trailingSlash))

NextRoute == CallRouteFromRelPath

SpecRoute == InitRoute /\ [][NextRoute]_vars

\* listPages: the route of a page file, then the file the page is written to
InitOutFile == InitRoute

CallOutFileFromRoute ==
    LET route == routeFromRelPath(arg.dir \o arg.name \o arg.ext, arg.cleanUrls, arg.trailingSlash)
    IN  Returns([route |-> route, outFile |-> outFileFromRoute(route, DistDir, arg.cleanUrls)])

NextOutFile == CallOutFileFromRoute

SpecOutFile == InitOutFile /\ [][NextOutFile]_vars

MaxHrefs == 2    \* anchors of the audited document

RouteTables == {<<"/", "/about/">>, <<"/", "/about">>, <<"/about.html", "/index.html">>, <<>>}

Hrefs ==
    {"/about", "/about/", "/missing/", "/", "//cdn.example/a", "https://example.com/about/",
     "about", "#top", "/about?x=1#y", "/about/#frag", "/about.html", "/about//"}

InitLinks ==
    /\ ExIdle
    /\ BuildIdle
    /\ \E n \in 0..MaxHrefs :
          arg \in [routes : RouteTables, hrefs : [1..n -> Hrefs]]
    /\ ret = NoCall

CallAuditHtml ==
    Returns(auditHtml([CleanDoc EXCEPT !.links = arg.hrefs], arg.routes))

NextLinks == CallAuditHtml

SpecLinks == InitLinks /\ [][NextLinks]_vars

\* single calls of auditHtml on documents that differ in what its checks read
AuditDocs ==
    {[CleanDoc EXCEPT !.title = t, !.desc = d, !.canon = c, !.icon = f,
                      !.heads = hs, !.imgs = is, !.links = ls] :
        t \in BOOLEAN, d \in BOOLEAN, c \in BOOLEAN, f \in BOOLEAN,
        hs \in {<<>>, <<1>>, <<1, 2>>, <<1, 2, 1>>},
        is \in {<<>>, <<Img(TRUE, "logo", FALSE)>>, <<Img(FALSE, "", FALSE)>>,
                <<Img(TRUE, "logo", FALSE), Img(TRUE, " ", FALSE)>>,
                <<[Img(TRUE, "logo", FALSE) EXCEPT !.large = TRUE]>>},
        ls \in {<<>>, <<"/about">>, <<"/missing/">>}}

InitAudit ==
    /\ ExIdle
    /\ BuildIdle
    /\ arg \in [doc : AuditDocs, routes : {<<"/", "/about/">>}]
    /\ ret = NoCall

CallAuditHtmlOnDoc == Returns(auditHtml(arg.doc, arg.routes))

NextAudit == CallAuditHtmlOnDoc

SpecAudit == InitAudit /\ [][NextAudit]_vars

\* single calls of auditAccessibility on documents whose headings, in document
\* order, are any sequence of up to MaxHeads levels h1..h6
MaxHeads == 3
HeadingLevels == 1..6

HeadSeqs == UNION {[1..n -> HeadingLevels] : n \in 0..MaxHeads}

InitHeadings ==
    /\ ExIdle
    /\ BuildIdle
    /\ arg \in [doc : {[CleanDoc EXCEPT !.heads = hs] : hs \in HeadSeqs},
                 rules : {AllRules, {"headingHierarchy"}, AllRules \ {"headingHierarchy"}}]
    /\ ret = NoCall

CallAuditAccessibility == Returns(auditAccessibility(arg.doc, arg.rules))

NextHeadings == CallAuditAccessibility

SpecHeadings == InitHeadings /\ [][NextHeadings]_vars

----------------------------------------------------------------------------
(* Template nodes.                                                         *)

Undef == "<undefined>"

Keys == {"k", "j"}

Txt(s) == [k |-> "text", s |-> s]
Tok(layer, key) == [k |-> "tok", layer |-> layer, key |-> key]
Inc(ref, data) == [k |-> "inc", ref |-> ref, data |-> data]
\* <!-- monad:loop itemVar in collectionPath -->template<!-- monad:endloop -->
Loop(itemVar, collectionPath, template) ==
    [k |-> "loop", var |-> itemVar, path |-> collectionPath, tpl |-> template]
\* {{itemVar}}, {{@index}} and {{@index1}}
ItemTok(itemVar) == [k |-> "item", var |-> itemVar]
Idx == [k |-> "idx"]
Idx1 == [k |-> "idx1"]
\* <!-- monad { JSON5 } -->: the block parses to meta, or JSON5.parse throws
Front(ok, meta) == [k |-> "front", ok |-> ok, meta |-> meta]
\* <!-- monad:slot name -->content<!-- monad:endslot -->
Slot(name, content) == [k |-> "slot", name |-> name, body |-> content]
\* {{slot:name}} of a layout
SlotRef(name) == [k |-> "slotref", name |-> name]

EmptyObj == [x \in Keys |-> Undef]
Obj(key, val) == [x \in Keys |-> IF x = key THEN val ELSE Undef]

\* the optional second capture group of the tag: absent, JSON5 text, or
\* text JSON5.parse rejects
NoData == [given |-> FALSE, ok |-> TRUE, obj |-> EmptyObj]
Data(o) == [given |-> TRUE, ok |-> TRUE, obj |-> o]
BadData == [given |-> TRUE, ok |-> FALSE, obj |-> EmptyObj]

----------------------------------------------------------------------------
(* Fragment resolution.                                                    *)

PartialsDir == "/site/partials"

resolvePartial(partialsDir, partialRef) ==
    The({The({LET ext == IF EndsWith(ref, ".html") THEN "" ELSE ".html"
                  underscore == IF StartsWith(basename, "_") THEN basename
                                ELSE "_" \o basename
              IN  PathJoin(PathJoin(partialsDir, IF dir = "." THEN "" ELSE dir),
                           underscore \o ext) :
                 basename \in {Basename(ref)}, dir \in {Dirname(ref)}}) :
            ref \in {StripQuotes(partialRef)}})

----------------------------------------------------------------------------
(* Fragment files.                                                         *)

NoFile == [exists |-> FALSE, text |-> <<>>]
File(t) == [exists |-> TRUE, text |-> t]

\* variant: the existence test always succeeds
existsSyncAlways(abs) == TRUE

existsSync(abs) == \E f \in {abs} : f \in DOMAIN files /\ files[f].exists

readText(abs) == files[abs].text

----------------------------------------------------------------------------
(* Interpolation.                                                          *)

\* getByPath for the two-segment paths `layer.key` of the templates
getByPath(ctx, layer, key) ==
    IF layer \notin DOMAIN ctx THEN ""
    ELSE IF key \notin DOMAIN ctx[layer] THEN ""
    ELSE IF ctx[layer][key] = Undef THEN "" ELSE ctx[layer][key]

\* getByPath for a one-segment path: the layers are objects, anything else
\* is undefined
getByName(ctx, name) == IF name \in DOMAIN ctx THEN "[object Object]" ELSE ""

\* every {{ expr }} is replaced, those between loop markers included
RECURSIVE interpolateMustache(_, _)
interpolateMustache(input, context) ==
    The({[i \in 1..Len(template) |->
        CASE template[i].k = "tok" ->
                Txt(getByPath(ctx, template[i].layer, template[i].key))
          [] template[i].k = "item" -> Txt(getByName(ctx, template[i].var))
          [] template[i].k = "idx" -> Txt(getByName(ctx, "@index"))
          [] template[i].k = "idx1" -> Txt(getByName(ctx, "@index1"))
          [] template[i].k = "slotref" -> Txt(getByName(ctx, "slot:" \o template[i].name))
          [] template[i].k = "slot" ->
                [template[i] EXCEPT !.body = interpolateMustache(@, ctx)]
          [] template[i].k = "loop" ->
                [template[i] EXCEPT !.tpl = interpolateMustache(@, ctx)]
          [] OTHER -> template[i]] : template \in {input}, ctx \in {context}})

----------------------------------------------------------------------------
(* Collection loops.                                                       *)

\* the text a node sequence stands for
RECURSIVE Ser(_)
Ser(input) ==
    The({IF nodes = <<>> THEN ""
    ELSE LET n == Head(nodes)
             t == CASE n.k = "text" -> n.s
                    [] n.k = "tok" -> "{{" \o n.layer \o "." \o n.key \o "}}"
                    [] n.k = "item" -> "{{" \o n.var \o "}}"
                    [] n.k = "idx" -> "{{@index}}"
                    [] n.k = "idx1" -> "{{@index1}}"
                    [] n.k = "inc" -> "<% " \o n.ref \o " %>"
                    [] n.k = "slotref" -> "{{slot:" \o n.name \o "}}"
                    [] n.k = "front" -> "<!-- monad " \o n.meta.text \o " -->"
                    [] n.k = "slot" ->
                          "<!-- monad:slot " \o n.name \o " -->" \o Ser(n.body)
                          \o "<!-- monad:endslot -->"
                    [] n.k = "loop" ->
                          "<!-- monad:loop " \o n.var \o " in " \o n.path \o " -->"
                          \o Ser(n.tpl) \o "<!-- monad:endloop -->"
         IN  t \o Ser(Tail(nodes)) : nodes \in {input}})

\* the text of the run of plain text that starts at position p
RECURSIVE RunText(_, _)
RunText(nodes, p) ==
    nodes[p].s \o (IF p < Len(nodes) /\ nodes[p + 1].k = "text" THEN RunText(nodes, p + 1)
                   ELSE "")

\* adjacent pieces of plain text are one piece of text
JoinRuns(nodes) ==
    Flatten([p \in 1..Len(nodes) |->
        IF nodes[p].k # "text" THEN <<nodes[p]>>
        ELSE IF p > 1 /\ nodes[p - 1].k = "text" THEN <<>>
        ELSE <<Txt(RunText(nodes, p))>>])

Join(nodes) == The({JoinRuns(ns) : ns \in {nodes}})

\* String.prototype.replace with a replacement string: $$, $&, $` and $'
\* are patterns (a string or group-free pattern has no $n)
RECURSIVE GetSubstitution(_, _, _, _)
GetSubstitution(input, matched, before, after) ==
    The({LET isPattern(i) == /\ i < Len(replacement)
                        /\ SubSeq(replacement, i, i) = "$"
                        /\ SubSeq(replacement, i + 1, i + 1) \in {"$", "&", "`", "'"}
    IN  IF \A i \in 1..Len(replacement) : ~isPattern(i)
        THEN (IF replacement = "" THEN <<>> ELSE <<Txt(replacement)>>)
        ELSE LET i == CHOOSE i \in 1..Len(replacement) :
                         isPattern(i) /\ \A h \in 1..(i - 1) : ~isPattern(h)
                 c == SubSeq(replacement, i + 1, i + 1)
             IN  (IF i = 1 THEN <<>> ELSE <<Txt(SubSeq(replacement, 1, i - 1))>>)
                 \o (CASE c = "$" -> <<Txt("$")>>
                        [] c = "&" -> matched
                        [] c = "`" -> before
                        [] c = "'" -> after)
                 \o GetSubstitution(SubSeq(replacement, i + 2, Len(replacement)),
                                    matched, before, after) : replacement \in {input}})

\* the same for a replacement made of several nodes
Substitute(replacement, matched, before, after) ==
    The({Join(Flatten([i \in 1..Len(r) |->
                IF r[i].k = "text" THEN GetSubstitution(r[i].s, matched, before, after)
                ELSE <<r[i]>>])) : r \in {Join(replacement)}})

\* s.replace(pattern, replacement) for a string pattern: the first occurrence
ReplaceFirst(s, pattern, replacement) ==
    IF \E j \in 1..Len(s) : s[j] = pattern
    THEN LET j == CHOOSE j \in 1..Len(s) :
                     s[j] = pattern /\ \A h \in 1..(j - 1) : s[h] # pattern
             before == SubSeq(s, 1, j - 1)
             after == SubSeq(s, j + 1, Len(s))
         IN  before \o Substitute(replacement, <<pattern>>, before, after) \o after
    ELSE s

\* items are objects over these fields, in this key order
Fields == <<"title", "tag">>
Item(title, tag) == [title |-> title, tag |-> tag]

\* a value of the collections object: an array of items or something else
Arr(items) == [isArray |-> TRUE, items |-> items]
NotArr == [isArray |-> FALSE, items |-> <<>>]

\* getByPath(collections, collectionPath); the store is keyed by whole paths
getCollection(colls, collectionPath) ==
    IF collectionPath \in DOMAIN colls THEN colls[collectionPath] ELSE NotArr

\* JSON.stringify(item)
RECURSIVE JsonMembers(_, _)
JsonMembers(item, fs) ==
    IF fs = <<>> THEN <<>>
    ELSE (IF item[Head(fs)] = Undef THEN <<>>
          ELSE <<"\"" \o Head(fs) \o "\":\"" \o item[Head(fs)] \o "\"">>)
         \o JsonMembers(item, Tail(fs))

RECURSIVE JoinComma(_)
JoinComma(ss) ==
    IF ss = <<>> THEN ""
    ELSE IF Len(ss) = 1 THEN ss[1]
    ELSE ss[1] \o "," \o JoinComma(Tail(ss))

JsonStringify(item) == "{" \o JoinComma(JsonMembers(item, Fields)) \o "}"

\* the body of collection.forEach: the four replacements, in their order
ItemHtml(template, itemVar, item, index) ==
    LET fields == [i \in 1..Len(template) |->
                     IF template[i].k = "tok" /\ template[i].layer = itemVar
                     THEN Txt(IF template[i].key \in DOMAIN item
                                 /\ item[template[i].key] # Undef
                              THEN item[template[i].key] ELSE "")
                     ELSE template[i]]
        whole == Flatten([i \in 1..Len(fields) |->
                     IF fields[i] = ItemTok(itemVar)
                     THEN Substitute(<<Txt(JsonStringify(item))>>, <<fields[i]>>,
                                     SubSeq(fields, 1, i - 1),
                                     SubSeq(fields, i + 1, Len(fields)))
                     ELSE <<fields[i]>>])
    IN  [i \in 1..Len(whole) |->
            CASE whole[i].k = "idx" -> Txt(ToString(index))
              [] whole[i].k = "idx1" -> Txt(ToString(index + 1))
              [] OTHER -> whole[i]]

NotFoundComment(collectionPath) == Txt("<!-- Collection " \o collectionPath \o " not found -->")

\* the while loop over the matches of loopPattern in html
RECURSIVE LoopMatches(_, _, _, _)
LoopMatches(html, j, result, colls) ==
    IF j > Len(html) THEN result
    ELSE IF html[j].k # "loop" THEN LoopMatches(html, j + 1, result, colls)
    ELSE LET fullMatch == html[j]
             collection == getCollection(colls, fullMatch.path)
             renderedHtml == Flatten([i \in 1..Len(collection.items) |->
                            ItemHtml(fullMatch.tpl, fullMatch.var, collection.items[i], i - 1)])
         IN  LoopMatches(html, j + 1,
                 ReplaceFirst(result, fullMatch,
                     IF collection.isArray THEN renderedHtml
                     ELSE <<NotFoundComment(fullMatch.path)>>),
                 colls)

expandCollectionLoops(html, colls) == LoopMatches(html, 1, html, colls)

----------------------------------------------------------------------------
(* Page preparation and layout composition (renderAll).                    *)

IsSpace(c) == c \in {" ", "\n", "\t"}

RECURSIVE TrimStart(_)
TrimStart(str) ==
    The({IF t = "" THEN "" ELSE IF IsSpace(SubSeq(t, 1, 1)) THEN TrimStart(Tail(t)) ELSE t :
            t \in {str}})

RECURSIVE TrimEnd(_)
TrimEnd(str) ==
    The({IF t = "" THEN ""
         ELSE IF IsSpace(SubSeq(t, Len(t), Len(t))) THEN TrimEnd(SubSeq(t, 1, Len(t) - 1))
         ELSE t : t \in {str}})

\* String.prototype.trim on the text of a node sequence
RECURSIVE TrimNodesStart(_)
TrimNodesStart(input) ==
    The({IF nodes = <<>> \/ nodes[1].k # "text" THEN nodes
         ELSE IF TrimStart(nodes[1].s) = "" THEN TrimNodesStart(Tail(nodes))
         ELSE <<Txt(TrimStart(nodes[1].s))>> \o Tail(nodes) : nodes \in {input}})

RECURSIVE TrimNodesEnd(_)
TrimNodesEnd(input) ==
    The({IF nodes = <<>> \/ nodes[Len(nodes)].k # "text" THEN nodes
         ELSE IF TrimEnd(nodes[Len(nodes)].s) = ""
              THEN TrimNodesEnd(SubSeq(nodes, 1, Len(nodes) - 1))
              ELSE SubSeq(nodes, 1, Len(nodes) - 1) \o <<Txt(TrimEnd(nodes[Len(nodes)].s))>> :
            nodes \in {input}})

Trim(nodes) == TrimNodesEnd(TrimNodesStart(nodes))

\* PageMeta: the fields renderAll reads; text is the block as written
Meta(title, description, head, layout, text) ==
    [title |-> title, description |-> description, head |-> head, layout |-> layout,
     text |-> text]
NoMeta == Meta(Undef, Undef, Undef, Undef, "")

\* what /<!--\s*monad\s*([\s\S]*?)-->/i matches: the frontmatter comment, and
\* the opening marker of a slot block or of a loop block just as well
MatchesMetaRe(n) == n.k \in {"front", "slot", "loop"}

\* the node without the comment the pattern matched
WithoutMatch(n) ==
    CASE n.k = "front" -> <<>>
      [] n.k = "slot" -> n.body \o <<Txt("<!-- monad:endslot -->")>>
      [] n.k = "loop" -> n.tpl \o <<Txt("<!-- monad:endloop -->")>>

tryParsePageMeta(raw) ==
    IF \A j \in 1..Len(raw) : ~MatchesMetaRe(raw[j])
    THEN [meta |-> NoMeta, body |-> raw]
    ELSE LET j == CHOOSE j \in 1..Len(raw) :
                     MatchesMetaRe(raw[j]) /\ \A h \in 1..(j - 1) : ~MatchesMetaRe(raw[h])
             m == raw[j]
             body == Trim(SubSeq(raw, 1, j - 1) \o WithoutMatch(m)
                          \o SubSeq(raw, j + 1, Len(raw)))
         IN  IF m.k = "front" /\ m.ok
             THEN [meta |-> m.meta, body |-> body]
             ELSE [meta |-> NoMeta, body |-> body]

SlotNames == {"head", "footer"}

\* slots[name] of the last block of that name, "" (no nodes) when there is none
extractSlotBlocks(html) ==
    LET blocks(name) == {j \in 1..Len(html) : html[j].k = "slot" /\ html[j].name = name}
        last(name) == CHOOSE j \in blocks(name) : \A h \in blocks(name) : h <= j
        keep == {j \in 1..Len(html) : html[j].k # "slot"}
        RECURSIVE Kept(_)
        Kept(j) == IF j > Len(html) THEN <<>>
                   ELSE (IF j \in keep THEN <<html[j]>> ELSE <<>>) \o Kept(j + 1)
    IN  [slots |-> [name \in SlotNames |->
                       IF blocks(name) = {} THEN <<>> ELSE Trim(html[last(name)].body)],
         rest |-> Trim(Kept(1))]

\* meta.head: the frontmatter's head, then the head slot on a new line
MetaHead(parsedMeta, slots) ==
    (IF parsedMeta.head = Undef THEN <<>> ELSE <<Txt(parsedMeta.head)>>)
    \o (IF Ser(slots["head"]) # "" THEN <<Txt("\n")>> \o slots["head"] ELSE <<>>)

\* route.replace(/\//g, " ").trim()
RECURSIVE SlashesToSpaces(_)
SlashesToSpaces(str) ==
    The({IF t = "" THEN ""
         ELSE (IF SubSeq(t, 1, 1) = "/" THEN " " ELSE SubSeq(t, 1, 1))
              \o SlashesToSpaces(Tail(t)) : t \in {str}})

\* the dash of the source is written "-"
DefaultTitle(siteName, route) ==
    siteName \o " - " \o (IF route = "/" THEN "Home" ELSE TrimEnd(TrimStart(SlashesToSpaces(route))))

DefaultDescription == "Built with Monad."

RECURSIVE escapeHtml(_)
escapeHtml(str) ==
    The({IF t = "" THEN ""
         ELSE LET c == SubSeq(t, 1, 1)
              IN  (CASE c = "&" -> "&amp;" [] c = "<" -> "&lt;" [] c = ">" -> "&gt;"
                     [] OTHER -> c)
                  \o escapeHtml(Tail(t)) : t \in {str}})

RECURSIVE QuotesEscaped(_)
QuotesEscaped(str) ==
    The({IF t = "" THEN ""
         ELSE (IF SubSeq(t, 1, 1) = "\"" THEN "&quot;" ELSE SubSeq(t, 1, 1))
              \o QuotesEscaped(Tail(t)) : t \in {str}})

escapeAttr(t) == QuotesEscaped(escapeHtml(t))

\* the title and description lines of buildMetaTags
buildMetaTags(title, description) ==
    "<title>" \o escapeHtml(title) \o "</title>\n<meta name=\"description\" content=\""
    \o escapeAttr(description) \o "\">"

DefaultLayoutHtml ==
    <<Txt("<!doctype html><html><head>"), SlotRef("head"), Txt("</head><body>"),
      SlotRef("main"), Txt("</body></html>")>>

\* s.replaceAll(placeholder, replacement) for a {{slot:name}} placeholder
ReplaceAllSlot(layoutHtml, name, replacement) ==
    Flatten([j \in 1..Len(layoutHtml) |->
        IF layoutHtml[j] = SlotRef(name)
        THEN Substitute(replacement, <<layoutHtml[j]>>,
                        SubSeq(layoutHtml, 1, j - 1),
                        SubSeq(layoutHtml, j + 1, Len(layoutHtml)))
        ELSE <<layoutHtml[j]>>])

\* t.indexOf(p) + 1
IndexOf(t, p) ==
    LET at(i) == SubSeq(t, i, i + Len(p) - 1) = p
        starts == 1..(Len(t) - Len(p) + 1)
    IN  IF \A i \in starts : ~at(i) THEN 0
        ELSE CHOOSE i \in starts : at(i) /\ \A h \in 1..(i - 1) : ~at(h)

\* layoutHtml.replace(/<\/head>/i, headCombined + "\n</head>")
BeforeHeadEnd(layoutHtml, headCombined) ==
    LET hit(j) == layoutHtml[j].k = "text" /\ IndexOf(ToLower(layoutHtml[j].s), "</head>") > 0
    IN  IF \A j \in 1..Len(layoutHtml) : ~hit(j) THEN layoutHtml
        ELSE LET j == CHOOSE j \in 1..Len(layoutHtml) :
                         hit(j) /\ \A h \in 1..(j - 1) : ~hit(h)
                 t == layoutHtml[j].s
                 at == IndexOf(ToLower(t), "</head>")
                 before == SubSeq(layoutHtml, 1, j - 1) \o <<Txt(SubSeq(t, 1, at - 1))>>
                 after == <<Txt(SubSeq(t, at + 7, Len(t)))>>
                          \o SubSeq(layoutHtml, j + 1, Len(layoutHtml))
             IN  before
                 \o Substitute(headCombined \o <<Txt("\n</head>")>>,
                               <<Txt(SubSeq(t, at, at + 6))>>, before, after)
                 \o after

\* [metaTags, assetTags, fontOptimizationTags, extraHead].filter(Boolean).join("\n")
\* for a build without manifest and without font optimization
HeadCombined(metaTags, extraHead) ==
    <<Txt(metaTags)>> \o (IF Ser(extraHead) = "" THEN <<>> ELSE <<Txt("\n")>> \o extraHead)

\* renderAll 1680-1698
InsertSlots(layoutHtml, renderedBody, headCombined) ==
    The({IF \E j \in 1..Len(footer) : footer[j] = SlotRef("head")
         THEN ReplaceAllSlot(footer, "head", headCombined)
         ELSE BeforeHeadEnd(footer, headCombined) :
            footer \in {ReplaceAllSlot(main, "footer", <<>>) :
                          main \in {ReplaceAllSlot(layoutHtml, "main", renderedBody)}}})

\* the collections data file: absent, text JSON5.parse rejects, or an object
NoCollections == <<>>
NoDataFile == [exists |-> FALSE, ok |-> FALSE, obj |-> NoCollections]
BadDataFile == [exists |-> TRUE, ok |-> FALSE, obj |-> NoCollections]
DataFile(obj) == [exists |-> TRUE, ok |-> TRUE, obj |-> obj]

loadCollectionsData(dataFile) ==
    IF ~dataFile.exists THEN NoCollections
    ELSE IF dataFile.ok THEN dataFile.obj ELSE NoCollections

\* single calls of expandCollectionLoops
MaxItems == 2    \* items of the posts collection

ItemCatalog == {Item("A", "x"), Item("B", Undef), Item("$$9", "y"), Item("$&", Undef)}

TagCollections == {Arr(<<Item(Undef, "t1"), Item(Undef, "t2")>>), Arr(<<>>)}

PostsOf(n) == {Arr(items) : items \in [1..n -> ItemCatalog]}

CollectionStores ==
    {[posts |-> ps, tags |-> ts] :
        ps \in UNION {PostsOf(n) : n \in 0..MaxItems}, ts \in TagCollections}

ListText ==
    <<Txt("<ul>"),
      Loop("p", "posts", <<Txt("<li>"), Tok("p", "title"), Txt("#"), Idx, Txt("/"), Idx1,
                           Txt("</li>")>>),
      Txt("</ul>")>>
TwoLoopsText ==
    <<Loop("p", "posts", <<Tok("p", "title"), Tok("p", "tag"), Txt(";")>>), Txt("|"),
      Loop("q", "tags", <<Idx1, Txt("="), Tok("q", "tag"), Tok("page", "title")>>)>>
SameLoopTwiceText ==
    <<Loop("p", "posts", <<Tok("p", "title")>>), Txt("|"),
      Loop("p", "posts", <<Tok("p", "title")>>)>>
WholeItemText == <<Txt("a"), Loop("p", "posts", <<ItemTok("p"), Txt(",")>>), Txt("z")>>

LoopTexts == {ListText, TwoLoopsText, SameLoopTwiceText, WholeItemText}

InitLoopFn ==
    /\ ExIdle
    /\ BuildIdle
    /\ arg \in [html : LoopTexts, collections : CollectionStores]
    /\ ret = NoCall

CallExpandCollectionLoops == Returns(expandCollectionLoops(arg.html, arg.collections))

NextLoopFn == CallExpandCollectionLoops

SpecLoopFn == InitLoopFn /\ [][NextLoopFn]_vars

----------------------------------------------------------------------------
(* expandIncludes as a stack machine: one frame per active call.           *)

MissingMarker(partialRef) == Txt("<!-- monad:missing-partial " \o partialRef \o " -->")
CycleMarker(partialRef) == Txt("<!-- monad:cycle " \o partialRef \o " -->")

\* variant: no cycle test
StackIncludesNever(stack, abs) == FALSE

StackIncludes(stack, abs) == \E i \in 1..Len(stack) : stack[i] = abs

\* variant: a failed parse leaves an object whose keys are set, to nothing
DataObjBadClears(rawData) ==
    IF rawData.given /\ rawData.ok THEN rawData.obj
    ELSE IF rawData.given THEN [x \in Keys |-> ""] ELSE EmptyObj

\* dataObj of a tag: {} when absent or when JSON5.parse throws
DataObj(rawData) == IF rawData.given /\ rawData.ok THEN rawData.obj ELSE EmptyObj

MergeData(base, over) == [x \in Keys |-> IF over[x] # Undef THEN over[x] ELSE base[x]]

\* variant: the caller's data wins over the inclusion-site data
NextCtxOuterWins(ctx, dataObj) == [ctx EXCEPT !.data = MergeData(dataObj, ctx.data)]

NextCtx(ctx, dataObj) == [ctx EXCEPT !.data = MergeData(ctx.data, dataObj)]

\* variant: the merge is written into the caller's own data object
CallerCtxMerged(ctx, dataObj) == [ctx EXCEPT !.data = MergeData(ctx.data, dataObj)]

\* the caller's own ctx object once nextCtx has been built from it
CallerCtx(ctx, dataObj) == ctx

SiteOptions == [name |-> "Monad"]

DefaultLayout == "layout.html"

\* the page files are p1.html, p2.html, ... of a build with clean URLs
PageRoutes == [i \in 1..MaxPages |-> routeFromRelPath("p" \o ToString(i) \o ".html", TRUE, TRUE)]
PageRoute(i) == PageRoutes[i]

\* renderAll 1591-1602: parsedMeta, the slots, and meta with the head slot
Prepared(raw) ==
    The({The({[parsedMeta |-> page.meta, body |-> page.body, slots |-> blocks.slots,
               rest |-> blocks.rest,
               meta |-> [page.meta EXCEPT !.head = MetaHead(page.meta, blocks.slots)]] :
                  blocks \in {extractSlotBlocks(page.body)}}) :
            page \in {tryParsePageMeta(raw)}})

\* renderAll 1604-1612
PageCtx(i) ==
    The({[site |-> SiteOptions,
          page |-> [route |-> PageRoute(i),
                    title |-> IF meta.title # Undef THEN meta.title
                              ELSE DefaultTitle(SiteOptions.name, PageRoute(i)),
                    description |-> IF meta.description # Undef THEN meta.description
                                    ELSE DefaultDescription,
                    head |-> meta.head,
                    layout |-> meta.layout],
          data |-> EmptyObj,
          collections |-> collections] : meta \in {Prepared(bodies[i]).meta}})

Frame(html, ctx, stack, skip) ==
    [html |-> html, pos |-> 1, out |-> <<>>, ctx |-> ctx, stack |-> stack, skip |-> skip]

Depth == Len(frames)
Top == frames[Depth]
AtTag == pc \in {"expand", "layout"} /\ Depth > 0 /\ Top.pos <= Len(Top.html)
Cur == Top.html[Top.pos]
CurAbs == resolvePartial(PartialsDir, Cur.ref)

Emit(node) ==
    frames' = [frames EXCEPT ![Depth].out = Append(@, node), ![Depth].pos = @ + 1]

\* renderAll 1591-1621: the page is split into meta, slots and body, and the
\* top-level call for the body is made with a fresh ctx
StartPage ==
    /\ pc = "expand" /\ Depth = 0 /\ pageIdx <= Len(bodies)
    /\ parsed' = Append(parsed, tryParsePageMeta(bodies[pageIdx]))
    /\ frames' = <<Frame(Prepared(bodies[pageIdx]).rest, PageCtx(pageIdx), <<>>, skipFinal)>>
    /\ UNCHANGED <<files, bodies, skipFinal, collections, pageIdx, rendered, composed, renderedFull, pc>>
    /\ UNCHANGED <<buildVars, fnVars>>

\* text the tag regex does not match is copied through
CopyText ==
    /\ AtTag /\ Cur.k # "inc"
    /\ Emit(Cur)
    /\ UNCHANGED <<files, bodies, skipFinal, collections, pageIdx, rendered, composed, parsed, renderedFull, pc>>
    /\ UNCHANGED <<buildVars, fnVars>>

IncludeMissing ==
    /\ AtTag /\ Cur.k = "inc"
    /\ ~existsSync(CurAbs)
    /\ Emit(MissingMarker(Cur.ref))
    /\ UNCHANGED <<files, bodies, skipFinal, collections, pageIdx, rendered, composed, parsed, renderedFull, pc>>
    /\ UNCHANGED <<buildVars, fnVars>>

IncludeCycle ==
    /\ AtTag /\ Cur.k = "inc"
    /\ existsSync(CurAbs)
    /\ StackIncludes(Top.stack, CurAbs)
    /\ Emit(CycleMarker(Cur.ref))
    /\ UNCHANGED <<files, bodies, skipFinal, collections, pageIdx, rendered, composed, parsed, renderedFull, pc>>
    /\ UNCHANGED <<buildVars, fnVars>>

\* the recursive call; readFileSync of an absent file and exhaustion of the
\* call stack both throw
IncludeCall ==
    /\ AtTag /\ Cur.k = "inc"
    /\ existsSync(CurAbs)
    /\ ~StackIncludes(Top.stack, CurAbs)
    /\ LET dataObj == DataObj(Cur.data)
           nextCtx == NextCtx(Top.ctx, dataObj)
           abs == CurAbs
       IN  IF abs \notin DOMAIN files \/ ~files[abs].exists \/ Depth >= MaxDepth
           THEN /\ pc' = "failed"
                /\ UNCHANGED frames
           ELSE /\ frames' = Append([frames EXCEPT ![Depth].ctx = CallerCtx(@, dataObj)],
                                    Frame(readText(abs), nextCtx, Append(Top.stack, abs), FALSE))
                /\ UNCHANGED pc
    /\ UNCHANGED <<files, bodies, skipFinal, collections, pageIdx, rendered, composed, parsed, renderedFull>>
    /\ UNCHANGED <<buildVars, fnVars>>

\* what a call returns: html, interpolated unless skipFinalInterpolation
Returned(f) == IF f.skip THEN f.out ELSE interpolateMustache(f.out, f.ctx)

\* variant: one array shared by all calls (stack.push(abs) instead of a copy)
StackAfterReturnShared(callerStack, calleeStack) == calleeStack

\* the caller's stack once the nested call has returned: the call was handed
\* the copy [...stack, abs] (line 357)
StackAfterReturn(callerStack, calleeStack) == callerStack

\* a nested call returns into the replace callback of its caller (line 360)
IncludeReturn ==
    /\ pc \in {"expand", "layout"} /\ Depth > 1 /\ Top.pos > Len(Top.html)
    /\ LET expanded == Returned(Top)
           piece == interpolateMustache(expanded, Top.ctx)
       IN  frames' = [SubSeq(frames, 1, Depth - 1) EXCEPT
                         ![Depth - 1].out = @ \o piece,
                         ![Depth - 1].pos = @ + 1,
                         ![Depth - 1].stack = StackAfterReturn(@, Top.stack)]
    /\ UNCHANGED <<files, bodies, skipFinal, collections, pageIdx, rendered, composed, parsed, renderedFull, pc>>
    /\ UNCHANGED <<buildVars, fnVars>>

\* the top-level call returns to renderAll, which expands the loops when
\* collections are enabled and not empty, interpolates the body (1629),
\* inserts body and head into the layout (1632-1698) and calls expandIncludes
\* on the result (1701)
FinishPage ==
    /\ pc = "expand" /\ Depth = 1 /\ Top.pos > Len(Top.html)
    /\ \E ctx \in {Top.ctx}, renderedBody \in {Returned(Top)} :
       \E looped \in {IF skipFinal /\ DOMAIN collections # {}
                       THEN expandCollectionLoops(renderedBody, collections)
                       ELSE renderedBody} :
       \E final \in {interpolateMustache(looped, ctx)},
          metaTags \in {buildMetaTags(ctx.page.title, ctx.page.description)},
          extraHead \in {Trim(ctx.page.head)} :
       LET layoutRef == IF ctx.page.layout # Undef THEN ctx.page.layout ELSE DefaultLayout
           layoutAbs == resolvePartial(PartialsDir, layoutRef)
           layoutHtml == IF existsSync(layoutAbs) THEN readText(layoutAbs)
                         ELSE DefaultLayoutHtml
       IN  \E headCombined \in {HeadCombined(metaTags, extraHead)} :
           \E full \in {InsertSlots(layoutHtml, final, headCombined)} :
               /\ composed' = Append(composed, renderedBody)
               /\ rendered' = Append(rendered, final)
               /\ frames' = <<Frame(full, ctx, <<>>, FALSE)>>
    /\ pc' = "layout"
    /\ UNCHANGED <<files, bodies, skipFinal, collections, pageIdx, parsed, renderedFull>>
    /\ UNCHANGED <<buildVars, fnVars>>

\* the call for the layout returns: renderedFull of the page
FinishLayout ==
    /\ pc = "layout" /\ Depth = 1 /\ Top.pos > Len(Top.html)
    /\ renderedFull' = Append(renderedFull, Returned(Top))
    /\ frames' = <<>>
    /\ pageIdx' = pageIdx + 1
    /\ pc' = IF pageIdx = Len(bodies) THEN "done" ELSE "expand"
    /\ UNCHANGED <<files, bodies, skipFinal, collections, rendered, composed, parsed>>
    /\ UNCHANGED <<buildVars, fnVars>>

----------------------------------------------------------------------------
(* Inputs of the composition runs.                                         *)

FragRefs == {"a", "b", "c"}
FragPath(r) == resolvePartial(PartialsDir, r)

LeafBody == <<Txt("leaf:"), Tok("data", "k")>>

FragBodies ==
    {LeafBody}
    \cup {<<Tok("data", "k"), Inc(r, NoData)>> : r \in FragRefs}
    \cup {<<Inc(r, Data(Obj("k", "in"))), Tok("data", "k")>> : r \in {"b", "c"}}
    \cup {<<Inc("b", NoData), Inc("c", NoData)>>}

BodyDataThenSibling == <<Inc("a", Data(Obj("k", "out"))), Tok("data", "k"), Inc("b", NoData)>>
BodyMissing == <<Inc("zz", NoData), Tok("page", "title"), Inc("a.html", BadData)>>
BodyTwice == <<Inc("a", NoData), Inc("_a", Data(Obj("j", "x"))), Tok("data", "j")>>

PageBodies == {BodyDataThenSibling, BodyMissing, BodyTwice}

Init ==
    /\ files \in [{FragPath(r) : r \in FragRefs} -> {File(t) : t \in FragBodies} \cup {NoFile}]
    /\ bodies \in [1..MaxPages -> PageBodies]
    /\ skipFinal \in BOOLEAN
    /\ collections = NoCollections
    /\ pageIdx = 1
    /\ frames = <<>>
    /\ rendered = <<>>
    /\ composed = <<>>
    /\ parsed = <<>>
    /\ renderedFull = <<>>
    /\ pc = "expand"
    /\ BuildIdle
    /\ FnIdle

Next ==
    \/ StartPage
    \/ CopyText
    \/ IncludeMissing
    \/ IncludeCycle
    \/ IncludeCall
    \/ IncludeReturn
    \/ FinishPage
    \/ FinishLayout

Spec == Init /\ [][Next]_vars

\* one page body per run: the runs on which termination of a top-level
\* expandIncludes call is checked, with weak fairness of its steps
InitOnePage ==
    /\ files \in [{FragPath(r) : r \in FragRefs} -> {File(t) : t \in FragBodies} \cup {NoFile}]
    /\ bodies \in [1..1 -> PageBodies]
    /\ skipFinal \in BOOLEAN
    /\ collections = NoCollections
    /\ pageIdx = 1
    /\ frames = <<>>
    /\ rendered = <<>>
    /\ composed = <<>>
    /\ parsed = <<>>
    /\ renderedFull = <<>>
    /\ pc = "expand"
    /\ BuildIdle
    /\ FnIdle

FairSpec == InitOnePage /\ [][Next]_vars /\ WF_vars(Next)

\* builds whose pages carry loop blocks, written in the page body or in a
\* fragment the page body includes
ItemsTemplate == <<Txt("<li>"), Tok("p", "title"), Txt("#"), Idx, Txt("/"), Idx1, Txt("</li>")>>

BodyLoopDirect == <<Loop("p", "posts", ItemsTemplate), Tok("page", "title")>>
BodyLoopInFragment == <<Inc("a", NoData), Txt("|"), Inc("zz", NoData)>>
BodyTwoLoops ==
    <<Loop("p", "drafts", <<Tok("p", "title")>>), Txt("|"),
      Loop("q", "posts", <<ItemTok("q"), Tok("q", "tag")>>)>>

LoopPageBodies == {BodyLoopDirect, BodyLoopInFragment, BodyTwoLoops}

FragLoop == <<Txt("<ul>"), Loop("p", "posts", ItemsTemplate), Txt("</ul>"), Inc("b", NoData)>>

LoopFiles ==
    {[x \in {FragPath(r) : r \in FragRefs} |->
         IF x = FragPath("a") THEN a ELSE IF x = FragPath("b") THEN b ELSE NoFile] :
       a \in {File(FragLoop), NoFile},
       b \in {File(<<Inc("a", NoData)>>), File(LeafBody), NoFile}}

DataFiles ==
    {NoDataFile, BadDataFile, DataFile(NoCollections),
     DataFile([posts |-> Arr(<<Item("A", "x"), Item("B", Undef)>>), misc |-> NotArr]),
     DataFile([posts |-> Arr(<<>>), misc |-> NotArr]),
     DataFile([misc |-> NotArr])}

\* renderAll 1559: the data file is read only when collections are enabled
InitLoops ==
    /\ files \in LoopFiles
    /\ bodies \in [1..MaxPages -> LoopPageBodies]
    /\ skipFinal \in BOOLEAN
    /\ \E dataFile \in DataFiles :
          collections = IF skipFinal THEN loadCollectionsData(dataFile) ELSE NoCollections
    /\ pageIdx = 1
    /\ frames = <<>>
    /\ rendered = <<>>
    /\ composed = <<>>
    /\ parsed = <<>>
    /\ renderedFull = <<>>
    /\ pc = "expand"
    /\ BuildIdle
    /\ FnIdle

SpecLoops == InitLoops /\ [][Next]_vars

\* builds whose pages carry a frontmatter block and slot blocks
GoodFront == Front(TRUE, Meta("Hello", Undef, "<meta name=x>", Undef,
                              "{title:'Hello',head:'<meta name=x>'}"))
BadFront == Front(FALSE, Meta(Undef, Undef, Undef, Undef, "{title:"))

HeadBlock == Slot("head", <<Txt(" <link rel=icon href=i.png> ")>>)
FooterBlock == Slot("footer", <<Txt("<p>foot</p>")>>)

PageFrontSlots == <<GoodFront, Txt("\n"), HeadBlock, Txt("<h1>Hi</h1>"), FooterBlock>>
PageBadFront == <<BadFront, Txt("\n<h1>B</h1>"), Tok("page", "title")>>
PagePlain == <<Txt("<h1>P</h1>"), Tok("page", "description")>>
PageSlotsOnly == <<HeadBlock, Txt("<h1>S</h1>")>>
PageLoopOnly == <<Txt("<ul>"), Loop("p", "posts", ItemsTemplate), Txt("</ul>")>>
PageSlotThenBadFront == <<HeadBlock, Txt("\n"), BadFront, Txt("\n<h1>X</h1>")>>

PageTexts ==
    {PageFrontSlots, PageBadFront, PagePlain, PageSlotsOnly, PageLoopOnly,
     PageSlotThenBadFront}

LayoutWithFooter ==
    <<Txt("<html><head>"), SlotRef("head"), Txt("</head><body><main>"), SlotRef("main"),
      Txt("</main><footer>"), SlotRef("footer"), Txt("</footer></body></html>")>>
LayoutWithNav ==
    <<Txt("<html><HEAD></HEAD><body>"), Inc("a", NoData), Inc("zz", NoData),
      SlotRef("main"), Txt("</body></html>")>>

PageFiles ==
    {[x \in {FragPath(r) : r \in FragRefs \cup {DefaultLayout}} |->
         IF x = FragPath(DefaultLayout) THEN l ELSE IF x = FragPath("a") THEN a ELSE NoFile] :
       l \in {File(LayoutWithFooter), File(LayoutWithNav), NoFile},
       a \in {File(<<Txt("<nav>"), Inc("a", NoData), Txt("</nav>")>>), NoFile}}

InitPages ==
    /\ files \in PageFiles
    /\ bodies \in [1..MaxPages -> PageTexts]
    /\ skipFinal \in BOOLEAN
    /\ \E dataFile \in {NoDataFile,
                         DataFile([posts |-> Arr(<<Item("A", "x"), Item("B", Undef)>>)])} :
          collections = IF skipFinal THEN loadCollectionsData(dataFile) ELSE NoCollections
    /\ pageIdx = 1
    /\ frames = <<>>
    /\ rendered = <<>>
    /\ composed = <<>>
    /\ parsed = <<>>
    /\ renderedFull = <<>>
    /\ pc = "expand"
    /\ BuildIdle
    /\ FnIdle

SpecPages == InitPages /\ [][Next]_vars

\* builds of pages whose body or head slot holds `$` sequences, composed
\* with the built-in layout or with a layout file that has the three slots
DollarTexts ==
    {<<Txt("<p>cost: $$5</p>")>>,
     <<Txt("<p>R&D $& more</p>")>>,
     <<Txt("<code>$'</code>")>>,
     <<Txt("<p>5 $ each</p>")>>,
     <<Slot("head", <<Txt("<script>var re = /^a$$/;</script>")>>), Txt("<h1>S</h1>")>>,
     <<Inc("a", NoData), Txt("<h1>F</h1>")>>}

DollarFiles ==
    {[x \in {FragPath(r) : r \in FragRefs \cup {DefaultLayout}} |->
         IF x = FragPath(DefaultLayout) THEN l ELSE IF x = FragPath("a") THEN a ELSE NoFile] :
       l \in {File(LayoutWithFooter), NoFile},
       a \in {File(<<Txt("<b>US$$</b>")>>),
             File(<<Txt("<i>$&</i>"), Inc("a", NoData)>>), NoFile}}

InitDollar ==
    /\ files \in DollarFiles
    /\ bodies \in [1..MaxPages -> DollarTexts]
    /\ skipFinal \in BOOLEAN
    /\ collections = NoCollections
    /\ pageIdx = 1
    /\ frames = <<>>
    /\ rendered = <<>>
    /\ composed = <<>>
    /\ parsed = <<>>
    /\ renderedFull = <<>>
    /\ pc = "expand"
    /\ BuildIdle
    /\ FnIdle

SpecDollar == InitDollar /\ [][Next]_vars

\* builds that use one fragment in three ways: the tag, the tag with empty
\* data, and the fragment's own text
ThreeForms(text) ==
    <<Inc("a", NoData), Txt("|"), Inc("a", Data(EmptyObj)), Txt("|")>> \o text

InlineFragments ==
    {LeafBody, <<Tok("page", "title"), Txt("!")>>, <<Txt("plain")>>,
     <<Txt("x"), Inc("a", NoData)>>}

InlineFiles ==
    {[x \in {FragPath(r) : r \in FragRefs} |->
         IF x = FragPath("a") THEN File(t)
         ELSE IF x = FragPath("b") THEN File(ThreeForms(t)) ELSE NoFile] :
       t \in InlineFragments}
    \cup {[x \in {FragPath(r) : r \in FragRefs} |-> NoFile]}

InitInline ==
    /\ files \in InlineFiles
    /\ bodies \in [1..MaxPages ->
                     {IF files[FragPath("a")].exists
                      THEN ThreeForms(files[FragPath("a")].text) ELSE ThreeForms(<<>>),
                      <<Inc("b", Data(Obj("k", "v")))>>,
                      <<Inc("b", NoData)>>}]
    /\ skipFinal \in BOOLEAN
    /\ collections = NoCollections
    /\ pageIdx = 1
    /\ frames = <<>>
    /\ rendered = <<>>
    /\ composed = <<>>
    /\ parsed = <<>>
    /\ renderedFull = <<>>
    /\ pc = "expand"
    /\ BuildIdle
    /\ FnIdle

SpecInline == InitInline /\ [][Next]_vars

\* builds of two pages that differ only in the data argument of one tag:
\* text JSON5.parse rejects on page 1, no argument on page 2.  The tag is in
\* the page body, or in the fragment the page includes with data of its own
\* (fragment a for page 1, b for page 2).
TagInBody(data) == <<Tok("data", "k"), Inc("c", data), Txt("|"), Tok("data", "k")>>
TagInFragment(data) == <<Tok("data", "k"), Txt(":"), Inc("c", data), Tok("data", "j")>>

IncludedBodies ==
    {LeafBody, <<Tok("data", "k"), Inc("c", NoData)>>,
     <<Inc("c", BadData), Tok("data", "j"), Txt("/"), Tok("data", "k")>>}

BadDataFiles ==
    {[x \in {FragPath(r) : r \in FragRefs} |->
         IF x = FragPath("a") THEN File(TagInFragment(BadData))
         ELSE IF x = FragPath("b") THEN File(TagInFragment(NoData))
         ELSE c] : c \in {File(t) : t \in IncludedBodies} \cup {NoFile}}

InitBadData ==
    /\ files \in BadDataFiles
    /\ bodies \in {<<TagInBody(BadData), TagInBody(NoData)>>}
                  \cup {<<<<Inc("a", d), Tok("data", "k")>>, <<Inc("b", d), Tok("data", "k")>>>> :
                           d \in {NoData, Data(Obj("k", "out")), Data(Obj("j", "x"))}}
    /\ skipFinal \in BOOLEAN
    /\ collections = NoCollections
    /\ pageIdx = 1
    /\ frames = <<>>
    /\ rendered = <<>>
    /\ composed = <<>>
    /\ parsed = <<>>
    /\ renderedFull = <<>>
    /\ pc = "expand"
    /\ BuildIdle
    /\ FnIdle

SpecBadData == InitBadData /\ [][Next]_vars

----------------------------------------------------------------------------
(* getByPath and interpolateMustache on JavaScript values.                 *)

\* the values a context holds: strings, null, undefined, plain objects (own
\* is the function from own keys to values) and the native functions plain
\* objects inherit
JStr(s) == [t |-> "string", s |-> s]
JNull == [t |-> "null"]
JUndefined == [t |-> "undefined"]
JObj(own) == [t |-> "object", own |-> own]
JFn(name) == [t |-> "function", name |-> name]

\* members of Object.prototype that every object, string and function has
ObjectProto == {"constructor", "toString", "valueOf", "hasOwnProperty"}

\* cur[p] for cur other than null and undefined
GetProp(cur, p) ==
    IF cur.t = "object" /\ p \in DOMAIN cur.own THEN cur.own[p]
    ELSE IF cur.t = "function" /\ p = "name" THEN JStr(cur.name)
    ELSE IF p \in ObjectProto THEN JFn(IF p = "constructor" THEN "Object" ELSE p)
    ELSE JUndefined

IsNullish(v) == v.t \in {"null", "undefined"}

\* dotPath.split(".")
RECURSIVE SplitDots(_)
SplitDots(str) ==
    The({IF IndexOf(s, ".") = 0 THEN <<s>>
         ELSE <<SubSeq(s, 1, IndexOf(s, ".") - 1)>>
              \o SplitDots(SubSeq(s, IndexOf(s, ".") + 1, Len(s))) : s \in {str}})

\* the loop of getByPath over parts
RECURSIVE WalkParts(_, _)
WalkParts(cur, parts) ==
    IF parts = <<>> THEN cur
    ELSE IF IsNullish(cur) THEN JStr("")
    ELSE WalkParts(GetProp(cur, Head(parts)), Tail(parts))

\* getByPath(obj, dotPath) for any number of segments
getByPathValue(obj, dotPath) ==
    LET parts == SelectSeq(SplitDots(dotPath), LAMBDA p : p # "")
        cur == WalkParts(obj, parts)
    IN  IF IsNullish(cur) THEN JStr("") ELSE cur

\* String(value): [ok, s]; the conversion throws a TypeError for an object
\* whose own toString is not callable (the inherited valueOf returns the
\* object)
StringOf(value) ==
    CASE value.t = "string" -> [ok |-> TRUE, s |-> value.s]
      [] value.t = "null" -> [ok |-> TRUE, s |-> "null"]
      [] value.t = "undefined" -> [ok |-> TRUE, s |-> "undefined"]
      [] value.t = "function" ->
            [ok |-> TRUE, s |-> "function " \o value.name \o "() { [native code] }"]
      [] value.t = "object" ->
            IF "toString" \in DOMAIN value.own /\ value.own["toString"].t # "function"
            THEN [ok |-> FALSE, s |-> ""]
            ELSE [ok |-> TRUE, s |-> "[object Object]"]

\* {{ expr }} with expr the trimmed capture of the token pattern
Expr(expr) == [k |-> "expr", expr |-> expr]

\* interpolateMustache(template, ctx) on such a template: [ok, html], ok
\* FALSE when a callback throws
interpolateValues(template, ctx) ==
    LET piece(n) == IF n.k = "expr" THEN StringOf(getByPathValue(ctx, n.expr))
                    ELSE [ok |-> TRUE, s |-> n.s]
    IN  IF \E i \in 1..Len(template) : ~piece(template[i]).ok
        THEN [ok |-> FALSE, html |-> <<>>]
        ELSE [ok |-> TRUE, html |-> [i \in 1..Len(template) |-> piece(template[i]).s]]

LeafValues == {JStr("v"), JStr(""), JNull, JUndefined}

InnerValues ==
    LeafValues
    \cup {JObj([c |-> v]) : v \in LeafValues}
    \cup {JObj([toString |-> JStr("1")]), JObj(<<>>)}

Contexts ==
    {JObj([a |-> JObj([b |-> v])]) : v \in InnerValues}
    \cup {JObj([a |-> v]) : v \in LeafValues}
    \cup {JObj(<<>>)}

DotPaths == {"a.b.c", "a.b", "a", "a..b", "a.x.c", "x.b.c", "a.toString", "a.b.constructor",
             "a.b.c.d"}

TokenTexts == {<<Txt("<p>"), Expr(p), Txt("</p>")>> : p \in DotPaths}
              \cup {<<Expr(p), Expr("a.b.c")>> : p \in DotPaths}

InitPath ==
    /\ ExIdle
    /\ BuildIdle
    /\ arg \in [template : TokenTexts, ctx : Contexts]
    /\ ret = NoCall

CallInterpolateMustache == Returns(interpolateValues(arg.template, arg.ctx))

NextPath == CallInterpolateMustache

SpecPath == InitPath /\ [][NextPath]_vars

----------------------------------------------------------------------------
(* The dev server middleware (configureServer 2088-2124).                  *)

\* the page files listPages returns, in its sorted order
DevFiles ==
    <<"about.html", "blog/index.html", "index.html", "re.html", "reindex.html",
      "src/tool.html", "x.y.html">>

MaxDevPages == 3

\* the html of a RenderResult, named by what was rendered
HtmlOfPage(i) == "rendered " \o DevFiles[i]
HtmlOfNotFound == "rendered 404"

PassedOn == [kind |-> "next", status |-> 0, html |-> ""]
Answered(status, html) == [kind |-> "end", status |-> status, html |-> html]

\* req.url.split("?")[0]
BeforeQuery(reqUrl) ==
    IF \E i \in 1..Len(reqUrl) : SubSeq(reqUrl, i, i) = "?"
    THEN LET i == CHOOSE i \in 1..Len(reqUrl) :
                     /\ SubSeq(reqUrl, i, i) = "?"
                     /\ \A h \in 1..(i - 1) : SubSeq(reqUrl, h, h) # "?"
         IN  SubSeq(reqUrl, 1, i - 1)
    ELSE reqUrl

\* req.url.split("?")[0] || "/"
UrlPath(reqUrl) == IF BeforeQuery(reqUrl) = "" THEN "/" ELSE BeforeQuery(reqUrl)

\* the predicate of results.find (line 2101)
RouteMatches(route, url, trailingSlash) ==
    \/ route = url
    \/ trailingSlash /\ route = url \o "/"
    \/ ~trailingSlash /\ route = DropTrailingSlash(url)

\* the URLs the middleware leaves to the other middlewares (line 2096)
IsViteInternal(url) ==
    \/ StartsWith(url, "/@")
    \/ StartsWith(url, "/src/")
    \/ StartsWith(url, "/node_modules/")
    \/ Includes(url, ".")

\* the middleware for one request against the pages `present` (indexes of
\* DevFiles); results is in the order of listPages, find takes the first
devMiddleware(reqUrl, present, cleanUrls, trailingSlash, notFoundEnabled) ==
    IF reqUrl = "" THEN PassedOn
    ELSE LET url == UrlPath(reqUrl)
             route(i) == routeFromRelPath(DevFiles[i], cleanUrls, trailingSlash)
             hits == {i \in present : RouteMatches(route(i), url, trailingSlash)}
         IN  IF IsViteInternal(url) THEN PassedOn
             ELSE IF hits # {}
             THEN Answered(200, HtmlOfPage(CHOOSE i \in hits : \A h \in hits : i <= h))
             ELSE IF notFoundEnabled THEN Answered(404, HtmlOfNotFound)
             ELSE PassedOn

\* requests for URLs that are routes of pages under some setting, and for
\* URLs that are not
DevUrls ==
    {routeFromRelPath(DevFiles[i], c, t) : i \in 1..Len(DevFiles), c \in BOOLEAN, t \in BOOLEAN}
    \cup {"/missing", "/about/?v=1", "?v=1", "/@vite/client", "/logo.png", ""}

InitDev ==
    /\ ExIdle
    /\ BuildIdle
    /\ arg \in [present : {s \in SUBSET (1..Len(DevFiles)) :
                              s # {} /\ Cardinality(s) <= MaxDevPages},
                cleanUrls : BOOLEAN, trailingSlash : BOOLEAN, notFound : BOOLEAN,
                url : DevUrls]
    /\ ret = NoCall

HandleRequest ==
    Returns(devMiddleware(arg.url, arg.present, arg.cleanUrls, arg.trailingSlash,
                          arg.notFound))

NextDev == HandleRequest

SpecDev == InitDev /\ [][NextDev]_vars

----------------------------------------------------------------------------
(* The color-contrast check of auditAccessibility (1005-1023) on the text  *)
(* of a style attribute, with hexToRgb, getLuminance and getContrastRatio  *)
(* (675-707).  Luminances are in units of 1/10000.                         *)

CharsOf(str) == {SubSeq(str, i, i) : i \in 1..Len(str)}

\* \s and [#\w] of the two regular expressions
SpaceChars == {" ", "\t", "\n"}
ValueChars == CharsOf("#_abcdefghijklmnopqrstuvwxyzABCDEFGHIJKLMNOPQRSTUVWXYZ0123456789")

NoMatch == ""

\* end of the longest run of characters of `chars` that starts at position i
RunEnd(str, i, chars) ==
    CHOOSE j \in i..(Len(str) + 1) :
        /\ j = Len(str) + 1 \/ SubSeq(str, j, j) \notin chars
        /\ \A h \in i..(j - 1) : SubSeq(str, h, h) \in chars

\* the capture group of  prefix\s*([#\w]+)  matched at position i
CaptureAt(str, i, prefix) ==
    IF SubSeq(str, i, i + Len(prefix) - 1) # prefix THEN NoMatch
    ELSE LET j == RunEnd(str, i + Len(prefix), SpaceChars)
         IN  SubSeq(str, j, RunEnd(str, j, ValueChars) - 1)

\* str.match of such an expression: the leftmost position that matches
FirstCapture(str, prefixes) ==
    LET hit(i) == \E p \in prefixes : i + Len(p) - 1 <= Len(str) /\ CaptureAt(str, i, p) # NoMatch
    IN  IF \A i \in 1..Len(str) : ~hit(i) THEN NoMatch
        ELSE LET i == CHOOSE i \in 1..Len(str) : hit(i) /\ \A h \in 1..(i - 1) : ~hit(h)
             IN  CaptureAt(str, i, CHOOSE p \in prefixes :
                                      i + Len(p) - 1 <= Len(str) /\ CaptureAt(str, i, p) # NoMatch)

\* style.match(/color:\s*([#\w]+)/)
ColorMatch(style) == FirstCapture(style, {"color:"})

\* style.match(/background(?:-color)?:\s*([#\w]+)/)
BgColorMatch(style) == FirstCapture(style, {"background-color:", "background:"})

HexDigits == "0123456789abcdef"
HexVal(ch) == (CHOOSE i \in 1..16 : SubSeq(HexDigits, i, i) = ToLower(ch)) - 1

NoRgb == [ok |-> FALSE, r |-> 0, g |-> 0, b |-> 0]

\* /^#?([a-f\d]{2})([a-f\d]{2})([a-f\d]{2})$/i
hexToRgb(hex) ==
    LET digits == IF StartsWith(hex, "#") THEN SubSeq(hex, 2, Len(hex)) ELSE hex
        pair(i) == 16 * HexVal(SubSeq(digits, i, i)) + HexVal(SubSeq(digits, i + 1, i + 1))
    IN  IF Len(digits) = 6 /\ \A i \in 1..6 : ToLower(SubSeq(digits, i, i)) \in CharsOf(HexDigits)
        THEN [ok |-> TRUE, r |-> pair(1), g |-> pair(3), b |-> pair(5)]
        ELSE NoRgb

\* c / 255 <= 0.03928 ? c / 255 / 12.92 : ((c / 255 + 0.055) / 1.055) ^ 2.4,
\* for the channel values of the colors below
LinearChannel == (0 :> 0) @@ (119 :> 1845) @@ (128 :> 2159) @@ (255 :> 10000)

getLuminance(r, g, b) ==
    (2126 * LinearChannel[r] + 7152 * LinearChannel[g] + 722 * LinearChannel[b]) \div 10000

\* the ratio as the fraction num / den; ok is FALSE for null
NoRatio == [ok |-> FALSE, num |-> 0, den |-> 1]

getContrastRatio(color1, color2) ==
    LET rgb1 == hexToRgb(color1)
        rgb2 == hexToRgb(color2)
        lum1 == getLuminance(rgb1.r, rgb1.g, rgb1.b)
        lum2 == getLuminance(rgb2.r, rgb2.g, rgb2.b)
    IN  IF ~rgb1.ok \/ ~rgb2.ok THEN NoRatio
        ELSE [ok |-> TRUE,
              num |-> (IF lum1 >= lum2 THEN lum1 ELSE lum2) + 500,
              den |-> (IF lum1 >= lum2 THEN lum2 ELSE lum1) + 500]

\* ratio.toFixed(2)
ToFixed2(ratio) ==
    LET hundredths == (200 * ratio.num + ratio.den) \div (2 * ratio.den)
    IN  ToString(hundredths \div 100) \o "."
        \o ToString((hundredths % 100) \div 10) \o ToString(hundredths % 10)

\* `${minimumRatio}` for a ratio given in tenths
TenthsText(tenths) ==
    IF tenths % 10 = 0 THEN ToString(tenths \div 10)
    ELSE ToString(tenths \div 10) \o "." \o ToString(tenths % 10)

\* the warning for a foreground and a background text, if any (1016-1021)
ContrastWarning(foreground, background, tagName, minimumTenths) ==
    LET ratio == getContrastRatio(foreground, background)
    IN  When(ratio.ok /\ 10 * ratio.num < minimumTenths * ratio.den,
             "Low color contrast ratio: " \o ToFixed2(ratio) \o ":1 (minimum: "
                \o TenthsText(minimumTenths) \o ":1) on " \o tagName)

\* the body of inlineStyles.forEach for one element (1011-1022)
CheckInlineStyle(style, tagName, minimumTenths) ==
    IF ~Includes(style, "color") THEN <<>>
    ELSE IF ColorMatch(style) # NoMatch /\ BgColorMatch(style) # NoMatch
    THEN ContrastWarning(ColorMatch(style), BgColorMatch(style), tagName, minimumTenths)
    ELSE <<>>

\* colors with channels 00, 77, 80 and ff, a shorthand and a color name
ColorTexts ==
    {"#000000", "#ffffff", "#FF0000", "#0000ff", "#777777", "808080", "#fff", "red"}

\* the style attribute with the two declarations in either order
StyleText(a) ==
    LET fg == "color:" \o a.gap \o a.color
        bg == a.bgProp \o ":" \o a.gap \o a.background
    IN  IF a.colorFirst THEN fg \o ";" \o bg ELSE bg \o ";" \o fg

InitContrast ==
    /\ ExIdle
    /\ BuildIdle
    /\ arg \in [color : ColorTexts, background : ColorTexts, colorFirst : BOOLEAN,
                bgProp : {"background-color", "background"}, gap : {"", " "},
                minimumTenths : {45, 70}]
    /\ ret = NoCall

CallCheckInlineStyle == Returns(CheckInlineStyle(StyleText(arg), "p", arg.minimumTenths))

NextContrast == CallCheckInlineStyle

SpecContrast == InitContrast /\ [][NextContrast]_vars

----------------------------------------------------------------------------
(* Properties of expandIncludes.                                           *)

FileMissing(abs) == abs \notin DOMAIN files \/ files[abs] = NoFile

\* the fragment files being expanded by the frames 2..Depth: frame i was
\* entered for the tag its caller i-1 is standing on
ChainFile(i) == resolvePartial(PartialsDir, frames[i - 1].html[frames[i - 1].pos].ref)
OnChain(abs) == \E i \in 2..Depth : ChainFile(i) = abs

EmitsOnly(node) ==
    frames' = [frames EXCEPT ![Depth].out = Append(@, node), ![Depth].pos = @ + 1]

Last(seq) == seq[Len(seq)]

\* C1: with any inclusion graph, cyclic or not, every expansion terminates
\* (all pages reach "done", the recursion never exhausts the call stack), and
\* a tag whose fragment is already on the current inclusion chain is replaced
\* by the comment <!-- monad:cycle REF --> without a further call.
C1_CycleTerminates ==
    /\ <>[](pc = "done")
    /\ [](pc # "failed")
    /\ [][(AtTag /\ Cur.k = "inc" /\ OnChain(CurAbs))
            => EmitsOnly(Txt("<!-- monad:cycle " \o Cur.ref \o " -->"))]_vars

\* two fragments on the chain and the tag just handled became a cycle marker
C1_Witness ==
    /\ pc = "expand" /\ Depth >= 3 /\ Top.pos > 1
    /\ Top.html[Top.pos - 1].k = "inc"
    /\ Last(Top.out) = CycleMarker(Top.html[Top.pos - 1].ref)

\* C2: an inclusion leaves the ctx of every frame that stays on the stack as
\* it was; the page-level data layer stays empty, so the page's own
\* {{data.j}} after `<% _a, {j: x} %>` renders empty, a sibling leaf included
\* after `<% a, {k: out} %>` does not see k, and no page sees another page's data.
C2_CallerCtxUnchanged ==
    /\ [][\A i \in 1..Depth : i <= Len(frames') => frames'[i].ctx = frames[i].ctx]_vars
    /\ [](Depth >= 1 => frames[1].ctx.data = EmptyObj)
    /\ [](\A i \in 1..Len(rendered) :
            /\ bodies[i] = BodyTwice => Last(rendered[i]) = Txt("")
            /\ (bodies[i] = BodyDataThenSibling /\ files[FragPath("b")] = File(LeafBody))
                 => Last(rendered[i]) = Txt(""))

\* a second page is composed after a first page that passed data, and the
\* first page's own token after its data-passing inclusion rendered empty
C2_Witness ==
    /\ Len(rendered) = 1 /\ bodies[1] = BodyTwice /\ existsSync(FragPath("a"))
    /\ Last(rendered[1]) = Txt("")
    /\ Depth = 1 /\ bodies[2] = BodyDataThenSibling /\ Top.pos = 2

\* the deepest inclusion site on the chain below frame i that passes key
SitesPassing(i, key) ==
    {j \in 1..(i - 1) :
        LET d == frames[j].html[frames[j].pos].data
        IN  d.given /\ d.ok /\ d.obj[key] # Undef}

InnermostValue(i, key) ==
    LET sites == SitesPassing(i, key)
    IN  IF sites = {} THEN frames[1].ctx.data[key]
        ELSE LET j == CHOOSE x \in sites : \A y \in sites : y <= x
             IN  frames[j].html[frames[j].pos].data.obj[key]

ValueText(v) == IF v = Undef THEN "" ELSE v

\* C3: inside a fragment at any depth, data.key is the value passed by the
\* innermost inclusion site on the chain that passes key (absent if none
\* does), site and page are those of the page, and that is the value put in
\* place of the fragment's {{data.key}} tokens when the fragment returns.
C3_ContextFlowsDown ==
    /\ [](\A i \in 2..Depth :
            /\ frames[i].ctx.site = frames[1].ctx.site
            /\ frames[i].ctx.page = frames[1].ctx.page
            /\ \A key \in Keys : frames[i].ctx.data[key] = InnermostValue(i, key))
    /\ [][(pc = "expand" /\ Depth > 1 /\ Top.pos > Len(Top.html)) =>
            \A n \in 1..Len(Top.out) :
                (Top.out[n].k = "tok" /\ Top.out[n].layer = "data") =>
                    frames'[Depth - 1].out[Len(frames[Depth - 1].out) + n]
                        = Txt(ValueText(InnermostValue(Depth, Top.out[n].key)))]_vars

\* k is passed as "out" by the page and as "in" one level below; the
\* fragment two levels down holds "in" and is about to return its token
C3_Witness ==
    /\ pc = "expand" /\ Depth >= 3 /\ Top.pos > Len(Top.html)
    /\ frames[1].html[frames[1].pos].data.obj["k"] = "out"
    /\ frames[2].html[frames[2].pos].data.obj["k"] = "in"
    /\ Top.ctx.data["k"] = "in"
    /\ \E n \in 1..Len(Top.out) : Top.out[n] = Tok("data", "k")

\* C4: a tag whose fragment file does not exist is replaced by the comment
\* <!-- monad:missing-partial REF -->, nothing throws, and the text around
\* it is expanded and interpolated as usual.
C4_MissingPartial ==
    /\ [](pc # "failed")
    /\ [][(AtTag /\ Cur.k = "inc" /\ FileMissing(CurAbs))
            => EmitsOnly(Txt("<!-- monad:missing-partial " \o Cur.ref \o " -->"))]_vars
    /\ [](\A i \in 1..Len(rendered) : bodies[i] = BodyMissing =>
            /\ rendered[i][1] = Txt("<!-- monad:missing-partial zz -->")
            /\ rendered[i][2] = Txt("Monad - p" \o ToString(i))
            /\ Len(rendered[i]) > 2)

\* a page whose first tag names no file has been composed, and a nested
\* missing fragment was met inside an existing one
C4_Witness ==
    /\ \E i \in 1..Len(rendered) :
          bodies[i] = BodyMissing /\ rendered[i][1] = MissingMarker("zz")
    /\ Depth >= 2 /\ Top.pos > 1 /\ Top.html[Top.pos - 1].k = "inc"
    /\ Last(Top.out) = MissingMarker(Top.html[Top.pos - 1].ref)

----------------------------------------------------------------------------
(* Properties of the build and of the audits.                              *)

Range(seq) == {seq[i] : i \in 1..Len(seq)}

FullRouteTable == [j \in 1..Len(pages) |-> RouteOf(pages[j].rel)]

\* C5: once the page loop runs, the route table is the routes of all page
\* sources, and a page's link to the route of any page of the build, also one
\* rendered later, never gets a broken-link warning.
C5_RouteTableComplete ==
    /\ bpc \notin {"idle", "start"} => allRoutes = FullRouteTable
    /\ \A i \in 1..Len(results) : i <= Len(pages) =>
          \A href \in Range(pages[i].doc.links) :
              href \in Range(FullRouteTable)
                  => ("Broken internal link: " \o href) \notin Range(results[i].warnings)

\* the first page links to "/", the route of the second page, and has been
\* audited while the second page is still to be rendered
C5_Witness ==
    /\ bpc = "render" /\ opts.auditEnabled
    /\ Len(results) = 1 /\ Len(pages) >= 2
    /\ "/" \in Range(pages[1].doc.links)
    /\ RouteOf(pages[2].rel) = "/"
    /\ results[1].warnings = <<>>

IsInternal(href) ==
    Len(href) >= 1 /\ SubSeq(href, 1, 1) = "/" /\ ~(Len(href) >= 2 /\ SubSeq(href, 2, 2) = "/")

\* the href up to its first "?" or "#"
PathPart(href) ==
    LET cut == {i \in 1..Len(href) : SubSeq(href, i, i) \in {"?", "#"}}
    IN  IF cut = {} THEN href
        ELSE SubSeq(href, 1, (CHOOSE i \in cut : \A j \in cut : i <= j) - 1)

NoSlash(s) == IF Len(s) >= 1 /\ SubSeq(s, Len(s), Len(s)) = "/" THEN SubSeq(s, 1, Len(s) - 1) ELSE s

IsBrokenHref(href, routes) ==
    IsInternal(href) /\ \A r \in Range(routes) : NoSlash(r) # NoSlash(PathPart(href))

IsLinkWarning(w) == Len(w) >= 21 /\ SubSeq(w, 1, 21) = "Broken internal link:"

\* C6: the broken-link warnings of auditHtml are, in document order, one per
\* anchor whose href is internal (one leading "/") and whose path without
\* query and fragment equals no route up to one trailing slash; no other
\* anchor gets one.
C6_LinkCheck ==
    ret.done /\ "hrefs" \in DOMAIN arg =>
        LET broken == SelectSeq(arg.hrefs, LAMBDA h : IsBrokenHref(h, arg.routes))
        IN  SelectSeq(ret.val, IsLinkWarning)
               = [i \in 1..Len(broken) |-> "Broken internal link: " \o broken[i]]

\* table ["/", "/about/"]: /missing/ is reported once, /about is not
C6_Witness ==
    /\ ret.done /\ "hrefs" \in DOMAIN arg
    /\ arg.routes = <<"/", "/about/">>
    /\ arg.hrefs = <<"/missing/", "/about">>
    /\ ret.val = <<"Broken internal link: /missing/">>

Aborted == bpc \in {"aborted:audit", "aborted:accessibility"}

\* C7: whenever a fail-mode policy aborts the build, report.json and
\* report.html and every page file have been written before.
C7_ReportsBeforeAbort ==
    Aborted =>
        /\ {ReportJson, ReportHtml} \subseteq written
        /\ \A i \in 1..Len(results) : results[i].outFile \in written

\* C8: the audit policy aborts only if auditHtml produced a warning, and the
\* accessibility policy only if auditAccessibility produced one.
C8_PolicyCountsOwnCategory ==
    /\ bpc = "aborted:audit" =>
          \E i \in 1..Len(results) : auditHtml(results[i].doc, allRoutes) # <<>>
    /\ bpc = "aborted:accessibility" =>
          \E i \in 1..Len(results) : auditAccessibility(results[i].doc, opts.rules) # <<>>

\* C9: with accessibility enabled in fail mode, a build that was not aborted
\* has no page with a warning of auditAccessibility.
C9_EveryAccessibilityWarningAborts ==
    (bpc = "done" /\ opts.a11yEnabled /\ opts.a11yMode = "fail") =>
        \A i \in 1..Len(results) : auditAccessibility(results[i].doc, opts.rules) = <<>>

\* C10: for a top-level page N: index maps to "/" under every flag
\* combination; any other N maps to /N/ with cleanUrls and trailingSlash and
\* to /N.html without cleanUrls; .md maps like .html.
C10_RouteTable ==
    (ret.done /\ "name" \in DOMAIN arg /\ arg.dir = "" /\ arg.ext \in {".html", ".md"}) =>
        /\ arg.name = "index" => ret.val = "/"
        /\ (arg.name # "index" /\ arg.cleanUrls /\ arg.trailingSlash)
              => ret.val = "/" \o arg.name \o "/"
        /\ (arg.name # "index" /\ ~arg.cleanUrls) => ret.val = "/" \o arg.name \o ".html"
        /\ ret.val = routeFromRelPath(arg.name \o ".html", arg.cleanUrls, arg.trailingSlash)

\* C11: with cleanUrls on, a route other than "/" ends in "/" exactly when
\* trailingSlash is true, for top-level pages, nested pages and index leaves
\* of subdirectories.
C11_TrailingSlashDecides ==
    (ret.done /\ arg.cleanUrls /\ ret.val # "/") =>
        (EndsWith(ret.val, "/") <=> arg.trailingSlash)

\* C12: the output file is the route's counterpart under the output root:
\* with cleanUrls "/" gives index.html and /a/b/ or /a/b gives
\* a/b/index.html; without cleanUrls the file path relative to the output
\* root is the route without its leading slash.
C12_OutFileMatchesRoute ==
    ret.done =>
        /\ ret.val.route = "/" => ret.val.outFile = DistDir \o "/index.html"
        /\ (arg.cleanUrls /\ ret.val.route # "/") =>
              ret.val.outFile = DistDir \o DropTrailingSlash(ret.val.route) \o "/index.html"
        /\ (~arg.cleanUrls /\ ret.val.route # "/") =>
              ret.val.outFile = DistDir \o ret.val.route

\* what a loop block stands for: the template once per item, in the order of
\* the sequence, each token replaced by the item's own value
InstanceOf(template, itemVar, item, index) ==
    [i \in 1..Len(template) |->
        CASE template[i].k = "tok" /\ template[i].layer = itemVar ->
                Txt(IF item[template[i].key] = Undef THEN "" ELSE item[template[i].key])
          [] template[i] = ItemTok(itemVar) -> Txt(JsonStringify(item))
          [] template[i].k = "idx" -> Txt(ToString(index))
          [] template[i].k = "idx1" -> Txt(ToString(index + 1))
          [] OTHER -> template[i]]

LoopsExpanded(html, colls) ==
    Flatten([j \in 1..Len(html) |->
        IF html[j].k = "loop" /\ getCollection(colls, html[j].path).isArray
        THEN LET items == getCollection(colls, html[j].path).items
             IN  Flatten([i \in 1..Len(items) |->
                     InstanceOf(html[j].tpl, html[j].var, items[i], i - 1)])
        ELSE <<html[j]>>])

\* C13: expandCollectionLoops replaces every loop block whose path is a
\* sequence of n items by the n instantiations of its template in the order
\* of the sequence, with {{V.field}} the item's field value (empty when
\* absent), {{@index}} = i and {{@index1}} = i + 1; several blocks of one
\* text are expanded independently.
C13_LoopExpansion ==
    ret.done => Ser(ret.val) = Ser(LoopsExpanded(arg.html, arg.collections))

\* the loop blocks as their authors wrote them
NodesOf(text) == {text[j] : j \in 1..Len(text)}
IsLoop(n) == n.k = "loop"
WrittenLoops ==
    {n \in UNION ({NodesOf(bodies[i]) : i \in 1..Len(bodies)}
                  \cup {NodesOf(files[f].text) : f \in DOMAIN files}) : IsLoop(n)}

\* C14: with collections enabled, every loop block of the composed page
\* body reaches the loop expander with its per-item tokens as written,
\* whether it comes from the page body or from an included fragment.
C14_LoopTokensReachExpander ==
    (skipFinal /\ DOMAIN collections # {}) =>
        \A i \in 1..Len(composed) :
            \A n \in NodesOf(composed[i]) : IsLoop(n) => n \in WrittenLoops

\* C15: with collections enabled, every loop block of a page body whose
\* path is not a sequence is replaced by the diagnostic comment, and the
\* other loop blocks of the page are expanded.
C15_UnresolvedLoopDiagnosed ==
    skipFinal =>
        \A i \in 1..Len(rendered) :
            \A n \in NodesOf(bodies[i]) :
                IsLoop(n) =>
                    IF getCollection(collections, n.path).isArray
                    THEN \A m \in NodesOf(rendered[i]) : ~IsLoop(m) \/ m.path # n.path
                    ELSE /\ Includes(Ser(rendered[i]), NotFoundComment(n.path).s)
                         /\ \A m \in NodesOf(rendered[i]) : ~IsLoop(m) \/ m.path # n.path

\* the layout the build uses for page i
LayoutOf(i) ==
    IF existsSync(FragPath(DefaultLayout)) THEN readText(FragPath(DefaultLayout))
    ELSE DefaultLayoutHtml

SlotBlocksOf(text) == {n \in NodesOf(text) : n.k = "slot"}

\* C16: every slot block of a page is removed from the main body and its
\* content is in the final document wherever the layout has the placeholder
\* of that name (head, footer), the remaining body is at {{slot:main}}, and
\* no placeholder is left in the document.
C16_SlotsReachLayout ==
    \A i \in 1..Len(renderedFull) :
        /\ \A n \in SlotBlocksOf(bodies[i]) :
              /\ ~Includes(Ser(rendered[i]), Ser(Trim(n.body)))
              /\ SlotRef(n.name) \in NodesOf(LayoutOf(i)) =>
                    Includes(Ser(renderedFull[i]), Ser(Trim(n.body)))
        /\ SlotRef("main") \in NodesOf(LayoutOf(i)) =>
              Includes(Ser(renderedFull[i]), Ser(rendered[i]))
        /\ ~Includes(Ser(renderedFull[i]), "{{slot:")

HasFront(text) == \E n \in NodesOf(text) : n.k = "front"

\* C17: for a page without frontmatter block tryParsePageMeta returns empty
\* meta and the page text itself as the body, slot and loop markers included.
C17_NoFrontmatterKeepsText ==
    \A i \in 1..Len(parsed) :
        ~HasFront(bodies[i]) => parsed[i] = [meta |-> NoMeta, body |-> bodies[i]]

\* the text without its frontmatter comment
RECURSIVE WithoutFront(_)
WithoutFront(text) ==
    IF text = <<>> THEN <<>>
    ELSE (IF Head(text).k = "front" THEN <<>> ELSE <<Head(text)>>) \o WithoutFront(Tail(text))

HasBadFront(text) == \E n \in NodesOf(text) : n.k = "front" /\ ~n.ok

\* C18: for a page whose frontmatter block does not parse tryParsePageMeta
\* returns empty meta and the page text without that block (up to the
\* white space around it); the page is rendered with the default title and
\* description and the build does not fail.
C18_BadFrontmatterDegrades ==
    /\ \A i \in 1..Len(parsed) :
          HasBadFront(bodies[i]) =>
              /\ parsed[i].meta = NoMeta
              /\ Ser(parsed[i].body) = Ser(Trim(WithoutFront(bodies[i])))
    /\ \A i \in 1..Len(renderedFull) :
          HasBadFront(bodies[i]) =>
              /\ Includes(Ser(renderedFull[i]), "<title>Monad - p" \o ToString(i) \o "</title>")
              /\ Includes(Ser(renderedFull[i]), "content=\"Built with Monad.\"")
    /\ (\E i \in 1..Len(bodies) : HasBadFront(bodies[i])) => pc # "failed"

\* the three parts of a text written as  first|second|third
Bars(text) == {j \in 1..Len(text) : text[j] = Txt("|")}
FirstBar(text) == CHOOSE j \in Bars(text) : \A h \in Bars(text) : j <= h
LastBar(text) == CHOOSE j \in Bars(text) : \A h \in Bars(text) : h <= j
PartOne(text) == SubSeq(text, 1, FirstBar(text) - 1)
PartTwo(text) == SubSeq(text, FirstBar(text) + 1, LastBar(text) - 1)
PartThree(text) == SubSeq(text, LastBar(text) + 1, Len(text))

HasNoInclude(text) == \A n \in NodesOf(text) : n.k # "inc"

\* C19: for a fragment F without inclusions of its own, <% F %>,
\* <% F, {} %> and F's text in place of the tag give the same output of the
\* composition step, with and without its trailing interpolation pass.
C19_EmptyDataIsInlining ==
    (existsSync(FragPath("a")) /\ HasNoInclude(readText(FragPath("a")))) =>
        \A i \in 1..Len(composed) :
            /\ Cardinality(Bars(composed[i])) = 2
            /\ Ser(PartOne(composed[i])) = Ser(PartTwo(composed[i]))
            /\ Ser(PartTwo(composed[i])) = Ser(PartThree(composed[i]))

AllImagesHaveAlt(doc) ==
    \A i \in 1..Len(doc.imgs) : doc.imgs[i].has /\ ~IsBlank(doc.imgs[i].alt)

\* C20: a page with two <h1> and an <img> without alt gets at least two
\* warnings, one per issue; a page with exactly one <h1>, a title, a meta
\* description, a canonical link, only images with non-empty alt and no
\* broken internal link gets none.
C20_AuditWarnings ==
    ret.done =>
        /\ (CountOf(arg.doc.heads, 1) = 2 /\ ~AllImagesHaveAlt(arg.doc)) =>
              /\ Len(ret.val) >= 2
              /\ "Multiple <h1> (2)" \in Range(ret.val)
              /\ "Image missing alt attribute" \in Range(ret.val)
        /\ (/\ CountOf(arg.doc.heads, 1) = 1
            /\ arg.doc.title /\ arg.doc.desc /\ arg.doc.canon
            /\ AllImagesHaveAlt(arg.doc)
            /\ \A i \in 1..Len(arg.doc.links) : ~IsBrokenHref(arg.doc.links[i], arg.routes))
              => ret.val = <<>>

----------------------------------------------------------------------------
(* Properties of interpolation, of the recursion and of the audits.        *)

\* the value of the context at the segments, looking only at what the
\* context holds: undefined when a segment is missing or an intermediate
\* value is null or undefined
RECURSIVE OwnValue(_, _)
OwnValue(cur, parts) ==
    IF parts = <<>> THEN cur
    ELSE IF cur.t # "object" \/ Head(parts) \notin DOMAIN cur.own THEN JUndefined
    ELSE OwnValue(cur.own[Head(parts)], Tail(parts))

ExpectedText(ctx, expr) ==
    LET v == OwnValue(ctx, SelectSeq(SplitDots(expr), LAMBDA p : p # ""))
    IN  IF IsNullish(v) THEN "" ELSE IF v.t = "string" THEN v.s ELSE "[object Object]"

\* C21: interpolateMustache never fails; every token is replaced by the
\* value found by looking up its segments one after the other, by the empty
\* string when a segment is missing or an intermediate value is null or
\* undefined, and the text outside tokens is unchanged.
C21_LookupMissIsEmpty ==
    ret.done =>
        /\ ret.val.ok
        /\ Len(ret.val.html) = Len(arg.template)
        /\ \A i \in 1..Len(arg.template) :
              ret.val.html[i] = IF arg.template[i].k = "expr"
                                THEN ExpectedText(arg.ctx, arg.template[i].expr)
                                ELSE arg.template[i].s

\* the calls of the audit fn made for the page file rel
CallsFor(fn, rel) == {j \in 1..Len(audits) : audits[j].fn = fn /\ audits[j].page = rel}

\* C22: once the pages of a build are written, every page has been audited
\* exactly once (by each audit that is enabled), and the text audited is the
\* page's final HTML, the text written to its output file.
C22_AuditedOnceOnFinalHtml ==
    bpc \in {"report", "auditPolicy", "a11yPolicy", "done"} =>
        \A i \in 1..Len(pages) :
            /\ opts.auditEnabled =>
                  Cardinality(CallsFor("auditHtml", pages[i].rel)) = 1
            /\ opts.a11yEnabled =>
                  Cardinality(CallsFor("auditAccessibility", pages[i].rel)) = 1
            /\ \A j \in 1..Len(audits) :
                  audits[j].page = pages[i].rel =>
                      \E h \in 1..Len(results) :
                          /\ results[h].doc = audits[j].html
                          /\ results[h].outFile \in written

\* the fragment files that exist
ExistingFragments == {abs \in DOMAIN files : files[abs].exists}

NoRepeat(stack) == \A i, j \in 1..Len(stack) : stack[i] = stack[j] => i = j

\* C23: the chain of fragments being expanded (the stack of every active
\* call) holds no path twice and only existing fragment files, so the depth
\* of the recursion never exceeds the number of existing fragment files.
C23_ChainHasNoRepeat ==
    \A d \in 1..Depth :
        /\ NoRepeat(frames[d].stack)
        /\ \A i \in 1..Len(frames[d].stack) : frames[d].stack[i] \in ExistingFragments
        /\ Len(frames[d].stack) = d - 1
        /\ Len(frames[d].stack) <= Cardinality(ExistingFragments)

\* every fragment file of the store is on the chain, and the innermost one
\* is at a tag that names a fragment of the chain
C23_Witness ==
    /\ Depth > 1
    /\ Len(Top.stack) = Cardinality(DOMAIN files)
    /\ AtTag /\ Cur.k = "inc" /\ StackIncludes(Top.stack, CurAbs)

\* the fragments a text includes, and the fragments reachable from a file
\* along inclusions of existing files
RefsOf(text) == {resolvePartial(PartialsDir, text[i].ref) : i \in {j \in 1..Len(text) : text[j].k = "inc"}}
Includes1(abs) == IF FileMissing(abs) THEN {} ELSE RefsOf(files[abs].text)
Includes2(abs) == Includes1(abs) \cup UNION {Includes1(b) : b \in Includes1(abs)}
Includes3(abs) == Includes2(abs) \cup UNION {Includes1(b) : b \in Includes2(abs)}
Acyclic == \A abs \in DOMAIN files : abs \notin Includes3(abs)

IsCycleMarker(n) == n.k = "text" /\ StartsWith(n.s, "<!-- monad:cycle ")

\* C24: a tag whose fragment exists and is not on the current inclusion
\* chain is expanded by a call of its own, however often the fragment was
\* expanded before; with an acyclic inclusion graph no cycle marker is ever
\* written.
C24_CyclePerChain ==
    /\ [][(AtTag /\ Cur.k = "inc" /\ existsSync(CurAbs) /\ ~OnChain(CurAbs))
            => /\ Len(frames') = Depth + 1
               /\ frames'[Depth + 1].html = readText(CurAbs)
               /\ frames'[Depth + 1].pos = 1]_vars
    /\ [](Acyclic =>
            \A d \in 1..Depth : \A i \in 1..Len(frames[d].out) :
                ~IsCycleMarker(frames[d].out[i]))

\* the page includes one fragment at two sites: the call for the later site
\* has run to its end, after an earlier site of the same fragment was
\* expanded, and no cycle marker was written
C24_Witness ==
    /\ pc = "expand" /\ Depth = 2 /\ frames[1].pos > 1
    /\ \E i \in 1..(frames[1].pos - 1) :
          /\ frames[1].html[i].k = "inc"
          /\ resolvePartial(PartialsDir, frames[1].html[i].ref) = ChainFile(2)
    /\ Top.pos > Len(Top.html)
    /\ ~IsCycleMarker(Last(frames[1].out))

\* C25: a tag whose data argument JSON5.parse rejects starts the call that
\* the tag without data argument starts (the caller's data layer, unchanged),
\* no error is raised, and the page renders as the page that differs from it
\* only in having no data argument at that tag.
C25_BadDataIsNoData ==
    /\ [](pc # "failed")
    /\ [](pc = "done" => /\ Ser(composed[1]) = Ser(composed[2])
                         /\ Ser(rendered[1]) = Ser(rendered[2]))
    /\ [][(AtTag /\ Cur.k = "inc" /\ Cur.data = BadData /\ Len(frames') = Depth + 1)
            => /\ frames'[Depth + 1].ctx.data = Top.ctx.data
               /\ frames'[Depth + 1].ctx.page = Top.ctx.page
               /\ frames'[Depth].ctx = Top.ctx]_vars

\* both pages are rendered, and the fragment behind the tag with the
\* rejected data has printed the value its caller was given
C25_Witness ==
    /\ pc = "done"
    /\ files[FragPath("c")] = File(LeafBody)
    /\ Includes(Ser(rendered[1]), "out:leaf:out")

\* positions of the headings that are more than one level below the heading
\* just before them
SkippedAt(heads) == {i \in 2..Len(heads) : heads[i] - heads[i - 1] > 1}

SkippedLevelWarnings(warnings) ==
    SelectSeq(warnings, LAMBDA w : StartsWith(w, "Heading hierarchy skipped level"))

\* C26: with the heading-hierarchy rule on, auditAccessibility emits one
\* "Heading hierarchy skipped level" warning for each heading whose level
\* exceeds the level of the heading just before it by more than one, naming
\* the two levels and in document order, and none for any other heading.
C26_SkippedLevels ==
    (ret.done /\ "headingHierarchy" \in arg.rules) =>
        LET heads == arg.doc.heads
            ws == SkippedLevelWarnings(ret.val)
        IN  /\ Len(ws) = Cardinality(SkippedAt(heads))
            /\ \A n \in 1..Len(ws) :
                  \E i \in SkippedAt(heads) :
                      /\ Cardinality({j \in SkippedAt(heads) : j <= i}) = n
                      /\ ws[n] = "Heading hierarchy skipped level: H" \o ToString(heads[i])
                                    \o " after h" \o ToString(heads[i - 1])

\* the audit of the headings h3, h5, h1 (the first is not an h1, the second
\* is two levels below it, the third is a step up) has given one such warning
C26_Witness ==
    /\ ret.done
    /\ "headingHierarchy" \in arg.rules
    /\ arg.doc.heads = <<3, 5, 1>>
    /\ Len(SkippedLevelWarnings(ret.val)) = 1

\* last segment of a route, without the slash that ends a clean route and
\* without the ".html" that ends a route when cleanUrls is off
RouteLeaf(route, cleanUrls) ==
    LET seg == Basename(DropTrailingSlash(route))
    IN  IF ~cleanUrls /\ EndsWith(seg, ".html") THEN SubSeq(seg, 1, Len(seg) - 5) ELSE seg

\* C27: for a page whose leaf name is anything but exactly "index" the last
\* segment of the route is the leaf name without its extension, and no page
\* of the same directory with another non-index leaf name has the same route.
C27_OnlyExactIndexCollapses ==
    (ret.done /\ arg.name # "index") =>
        /\ RouteLeaf(ret.val, arg.cleanUrls) = arg.name
        /\ \A other \in PageNames \ {"index", arg.name} :
              routeFromRelPath(arg.dir \o other \o arg.ext, arg.cleanUrls, arg.trailingSlash)
                  # ret.val

\* the layout of a page that names none: the file layout.html of the
\* fragment directory, or the built-in layout
LayoutOfBuild ==
    IF existsSync(FragPath(DefaultLayout)) THEN readText(FragPath(DefaultLayout))
    ELSE DefaultLayoutHtml

\* the layout with each placeholder replaced by the given text as it is
SlotsFilled(layoutHtml, body, head) ==
    Flatten([j \in 1..Len(layoutHtml) |->
        IF layoutHtml[j] = SlotRef("main") THEN <<Txt(body)>>
        ELSE IF layoutHtml[j] = SlotRef("head") THEN <<Txt(head)>>
        ELSE IF layoutHtml[j] = SlotRef("footer") THEN <<>>
        ELSE <<layoutHtml[j]>>])

\* C28: when the page is composed with its layout, the text in place of
\* {{slot:main}} is character for character the rendered body and the text
\* in place of {{slot:head}} is character for character the combined head
\* markup, also when they contain `$` sequences.
C28_SlotsVerbatim ==
    [][(pc = "expand" /\ pc' = "layout") =>
          Ser(frames'[1].html) =
              Ser(SlotsFilled(LayoutOfBuild,
                              Ser(rendered'[Len(rendered')]),
                              Ser(HeadCombined(buildMetaTags(Top.ctx.page.title,
                                                             Top.ctx.page.description),
                                               Trim(Top.ctx.page.head)))))]_vars

\* C29: in dev mode a request whose URL path is the route of a page is
\* answered with status 200 and that page's rendered HTML, under every
\* cleanUrls/trailingSlash setting; a URL matching no route is answered
\* with the 404 page and status 404 when notFound is enabled.
C29_EveryRouteServed ==
    ret.done =>
        LET route(i) == routeFromRelPath(DevFiles[i], arg.cleanUrls, arg.trailingSlash)
        IN  /\ \A i \in arg.present :
                  (arg.url # "" /\ UrlPath(arg.url) = route(i))
                      => ret.val = Answered(200, HtmlOfPage(i))
            /\ (/\ arg.notFound
                /\ arg.url # ""
                /\ \A i \in arg.present :
                      ~RouteMatches(route(i), UrlPath(arg.url), arg.trailingSlash))
                  => ret.val = Answered(404, HtmlOfNotFound)

\* C30: for an element whose inline style declares both `color` and
\* `background-color` the warning is the one of the contrast between the
\* value of `color` as foreground and the value of the background
\* declaration as background, whichever declaration comes first.
C30_OrderIndependent ==
    ret.done =>
        /\ ret.val = ContrastWarning(arg.color, arg.background, "p", arg.minimumTenths)
        /\ ret.val = CheckInlineStyle(StyleText([arg EXCEPT !.colorFirst = ~@]), "p",
                                      arg.minimumTenths)

====
